---- MODULE Spec2Model ----
(***************************************************************************)
(* Strategy execution core of wealthai-cc/strategy_spec: the event         *)
(* dispatcher, the execution Context with its order-operation ledger, the  *)
(* LifecycleManager's once-per-exec_id initialisation and the              *)
(* StrategyExecutionEngine that ties them together.                        *)
(*                                                                         *)
(* The specifications share the module's variables:                        *)
(*   SpecDispatch  EventDispatcher.dispatch applied to bounded inputs      *)
(*   SpecCtx       one Context driven by order_buy / order_sell /          *)
(*                 cancel_order / get_order_operations                     *)
(*   Spec          engines A and B called from one thread, call after call *)
(*   SpecConc      the same engines called from two threads at once, with  *)
(*                 strategy hooks and callbacks that never raise           *)
(*   SpecBacktest  one run of BacktestEngine.run_backtest over a bounded   *)
(*                 bar sequence                                            *)
(*   SpecTime      is_time_match and is_trade_day applied to bounded       *)
(*                 inputs                                                  *)
(*   SpecSched     one LifecycleManager.before_trading call over the       *)
(*                 entries registered with run_daily                       *)
(*   SpecPortfolio the Account of one Context changed and its Portfolio    *)
(*                 read                                                    *)
(*   SpecOrderValue order_value called on the Context of the thread        *)
(*   SpecHistory   Context.history applied to bounded market data          *)
(*   SpecCache     one WebSocketCache receiving bars for two keys          *)
(*   SpecWs        one WebSocketClient: connect / disconnect calls, the    *)
(*                 callbacks of its sockets and its reconnect threads      *)
(***************************************************************************)
EXTENDS Integers, Sequences, FiniteSets, TLC

VARIABLES
    \* ---- EventDispatcher.dispatch applied to one input (SpecDispatch)
    dIn,            \* the arguments of the dispatch call
    dOut,           \* the result of the last call, NotCalled before the first
    dPrev,          \* the result of the call before the last, NotCalled if none
    \* ---- one Context (SpecCtx)
    incomplete_orders,  \* Context._incomplete_orders
    order_operations,   \* Context._order_operations, the ledger
    uuidNext,           \* the next value uuid.uuid4() yields
    returned,           \* the list object the last get_order_operations returned
    lastCall,           \* the last Context call: its name, arguments, result, ledger before
    prevGet,            \* what the get_order_operations call before the last one returned
    \* ---- engines and threads (Spec, SpecConc)
    strategyFile,   \* what each engine's strategy file defines
    loaded,         \* StrategyExecutionEngine._loaded, per engine
    loader,         \* StrategyExecutionEngine.loader: its StrategyLoader._module
    lifecycle,      \* StrategyExecutionEngine.lifecycle: the LifecycleManager object
    modules,        \* the strategy module objects created so far, in creation order
    scheduled,      \* wealthdata._scheduled_functions, per strategy module object
    initialized,    \* LifecycleManager._initialized_contexts, per LifecycleManager object
    moduleLocal,    \* wealthdata._strategy_module_local.module, per thread
    contextLocal,   \* engine.wealthdata._context_local.context, per thread
    pc,             \* each thread's position in execute / load_strategy
    call,           \* each thread's current call: engine, request, Context, dispatch result
    response,       \* the ExecResponse of each thread's last call, once it returned
    lastReturn,     \* each thread's last call and the path it returned on, once it returned
    hookCount,      \* how often each engine's init hook was invoked, per exec_id
    discarded,      \* unique ids queued in calls whose hook or callback raised
    nCalls,         \* number of execute / load_strategy calls started
    \* ---- one run of BacktestEngine.run_backtest (SpecBacktest); its temp_context
    \*      is the Context of order_operations and uuidNext above
    btIn,           \* the arguments of run_backtest: bars, initial_cash, symbol, timeframe
    btPc,           \* the position of the run in run_backtest
    bar_idx,        \* bar_idx of the loop over bars (0-based)
    current_cash,   \* current_cash
    positions,      \* positions: symbol -> quantity, on the symbols held
    all_orders,     \* all_orders, the fills recorded so far
    btMarketData,   \* exec_request['market_data_context'], which is also
                    \* temp_context._market_data_context (the same list object)
    current_bar,    \* temp_context.current_bar
    portfolio,      \* temp_context.portfolio: available_cash and positions
    order_ops,      \* order_ops, the snapshot being processed
    opIdx,          \* the position of the loop over order_ops (1-based)
    queuedAt,       \* unique id -> the bar_idx during which the order was queued
    rejected,       \* the Create operations whose cash / position check failed
    \* ---- is_time_match / is_trade_day applied to one input (SpecTime)
    tIn,            \* the arguments: instant, market type, time point, tolerance
    tOut,           \* the results of is_time_match and is_trade_day, NotCalled before
    \* ---- one LifecycleManager.before_trading call (SpecSched)
    schedIn,        \* the registered entries, the Context, the clock, the strategy
    schedPc,        \* the position of the call
    schedIdx,       \* the position of the loop over scheduled_funcs (1-based)
    invoked,        \* the strategy functions invoked so far, with their Context
    resolved,       \* the market type computed for each entry evaluated so far
    schedOut,       \* how the call ended: "returned" or "raised"
    invokedBefore,  \* the entries the earlier before_trading calls invoked, call by call
    \* ---- the Account and the Portfolio of one Context (SpecPortfolio)
    account,        \* Context.account: available_margin, balances, positions
    ctxPortfolio,   \* Context.portfolio: _available_cash and _positions_dict
    queried,        \* what the last read of context.portfolio returned, with the
                    \* Account at that moment
    nAccount,       \* number of Account changes so far
    \* ---- order_value called on one Context (SpecOrderValue)
    ovIn,           \* the Context of the thread: market configuration, current bar
    ovOut,          \* the last order_value call: arguments, quantity, outcome
    \* ---- Context.history applied to one input (SpecHistory)
    hIn,            \* the market data of the Context
    hOut,           \* the last history call: arguments and the bars returned
    \* ---- one WebSocketCache (SpecCache)
    wcache,         \* _max_bars, _cache and _last_update of the WebSocketCache
    added,          \* every add_bar call so far: its key and its bar, in call order
    \* ---- one WebSocketClient, its socket and reconnect threads (SpecWs)
    max_reconnect_attempts, \* WebSocketClient.max_reconnect_attempts
    ws_state,           \* WebSocketClient._state
    should_reconnect,   \* WebSocketClient._should_reconnect
    reconnect_attempts, \* WebSocketClient._reconnect_attempts
    sockets,            \* the WebSocketApp objects created so far; _ws is the last
    reconnectThreads,   \* the reconnect threads: how many sleep, how many have
                        \* passed the _should_reconnect test
    userPc,             \* the position of the application thread
    disconnected,       \* disconnect() has returned and connect() was not called since
    attemptsSinceOpen,  \* reconnect attempts scheduled since the last _on_open
    nUser               \* connect / disconnect calls of the application so far

dispVars == <<dIn, dOut, dPrev>>
ctxVars == <<incomplete_orders, order_operations, uuidNext, returned, lastCall, prevGet>>
engVars == <<strategyFile, loaded, loader, lifecycle, modules, scheduled, initialized,
             moduleLocal, contextLocal, pc, call, response, lastReturn, hookCount,
             discarded, nCalls>>
btVars == <<btIn, btPc, bar_idx, current_cash, positions, all_orders, btMarketData,
            current_bar, portfolio, order_ops, opIdx, queuedAt, rejected>>
calVars == <<tIn, tOut>>
schedVars == <<schedIn, schedPc, schedIdx, invoked, resolved, schedOut, invokedBefore>>
pfVars == <<account, ctxPortfolio, queried, nAccount>>
ovVars == <<ovIn, ovOut>>
histVars == <<hIn, hOut>>
cacheVars == <<wcache, added>>
wsVars == <<max_reconnect_attempts, ws_state, should_reconnect, reconnect_attempts,
            sockets, reconnectThreads, userPc, disconnected, attemptsSinceOpen, nUser>>
lateVars == <<histVars, cacheVars, wsVars>>
compatVars == <<calVars, schedVars, pfVars, ovVars, lateVars>>
\* the engine state but the threads' active-Context slots
engOther == <<strategyFile, loaded, loader, lifecycle, modules, scheduled, initialized,
              moduleLocal, pc, call, response, lastReturn, hookCount, discarded, nCalls>>
vars == <<dispVars, ctxVars, engVars, btVars, compatVars>>

None == "None"

\* ------------------------------------------------------------------------
\* Enumerations (engine/dispatcher/dispatcher.py, engine/context/context.py)
\* ------------------------------------------------------------------------
INVALID_TRIGGER_TYPE == 0
MARKET_DATA_TRIGGER_TYPE == 1
RISK_MANAGE_TRIGGER_TYPE == 2
ORDER_STATUS_TRIGGER_TYPE == 3

BUY_DIRECTION_TYPE == 1
SELL_DIRECTION_TYPE == 2
MARKET_ORDER_TYPE == 1
LIMIT_ORDER_TYPE == 2
NEW_ORDER_STATUS_TYPE == 1
GTC_TIME_IN_FORCE_TYPE == 2
CREATE_ORDER_OP_TYPE == 1
WITHDRAW_ORDER_OP_TYPE == 2

STATUS_SUCCESS == 0
STATUS_FAILED == 2

\* the members of the IntEnum TriggerType
TriggerType == {INVALID_TRIGGER_TYPE, MARKET_DATA_TRIGGER_TYPE,
                RISK_MANAGE_TRIGGER_TYPE, ORDER_STATUS_TRIGGER_TYPE}

\* EventDispatcher.TRIGGER_TO_FUNCTION.get(trigger): None when there is no entry
TRIGGER_TO_FUNCTION(trigger) ==
    CASE trigger = MARKET_DATA_TRIGGER_TYPE -> "handle_bar"
      [] trigger = ORDER_STATUS_TRIGGER_TYPE -> "on_order"
      [] trigger = RISK_MANAGE_TRIGGER_TYPE -> "on_risk_event"
      [] OTHER -> None

\* ------------------------------------------------------------------------
\* Bounds of the model
\* ------------------------------------------------------------------------
MaxTriggerValue == 5    \* trigger_type inputs range over 0..MaxTriggerValue
MaxCtxCalls == 4        \* Context calls in one SpecCtx run
MaxCalls == 3           \* execute / load_strategy calls in one single-thread run
MaxConcCalls == 2       \* execute / load_strategy calls in one two-thread run
MaxOrders == 1          \* orders the strategy queues on one Context in an engine run
MaxBars == 2            \* bars of one run_backtest
MaxBtOrders == 2        \* orders the strategy queues in one run_backtest

TriggerInputs == 0..MaxTriggerValue

\* ------------------------------------------------------------------------
\* Values of engine/context/context.py
\* ------------------------------------------------------------------------
\* dict.get(key, default): a request dictionary d carries the set d.keys of the
\* keys it holds; the value of an absent key is never read
Get(d, key, default) == IF key \in d.keys THEN d[key] ELSE default

\* Bar(open_time=..., close_time=..., close=...) built from a bar dictionary
Bar(bar_data) ==
    [kind |-> "Bar",
     open_time |-> Get(bar_data, "open_time", 0),
     close_time |-> Get(bar_data, "close_time", 0),
     close |-> Get(bar_data, "close", "0")]

\* Order(): the dataclass defaults
DefaultOrder ==
    [kind |-> "Order", order_id |-> "", unique_id |-> "", symbol |-> "",
     direction_type |-> 0, order_type |-> 0, qty |-> 0, limit_price |-> None,
     status |-> 0]

\* RiskEvent(risk_event_type=detail.get(..., 0), remark=detail.get(..., ""))
RiskEvent(trigger_detail) ==
    [kind |-> "RiskEvent",
     risk_event_type |-> Get(trigger_detail, "risk_event_type", 0),
     remark |-> Get(trigger_detail, "remark", "")]

NoArg == [kind |-> "None"]
\* a Context object is identified by the number of the call that built it;
\* NoContext stands for None
NoContext == 0
\* the func_args member of dispatch's result when it is None
NoArgs == [context |-> NoContext, arg |-> NoArg]

\* ------------------------------------------------------------------------
\* EventDispatcher.dispatch (engine/dispatcher/dispatcher.py:38-119)
\* strategy_functions is the set of callback names the strategy implements.
\* The result carries exc, the exception the call raised (None if it returned).
\* ------------------------------------------------------------------------
DispatchResult(name, func, args) == [exc |-> None, name |-> name, func |-> func, args |-> args]
DispatchRaised(exc) == [exc |-> exc, name |-> None, func |-> None, args |-> NoArgs]

\* self.strategy_functions.get(function_name) (dispatcher.py:71), and a variant
\* that yields a callable for every name
GetFunctionAnyName(strategy_functions, function_name) == function_name

GetFunction(strategy_functions, function_name) ==
    IF function_name \in strategy_functions THEN function_name ELSE None

\* market_data_context[0]["bars"][-1] (dispatcher.py:82), and a variant that
\* takes the last bar of the last block
LatestBarOfLastBlock(market_data_context) ==
    LET bars == market_data_context[Len(market_data_context)].bars
    IN IF bars = <<>> THEN market_data_context[1].bars[Len(market_data_context[1].bars)]
       ELSE bars[Len(bars)]

LatestBarData(market_data_context) ==
    LET bars == market_data_context[1].bars IN bars[Len(bars)]

\* the order handed to on_order (dispatcher.py:101-107), and a variant that
\* takes the last incomplete order
LastIncompleteOrder(incomplete) ==
    IF Len(incomplete) > 0 THEN incomplete[Len(incomplete)] ELSE DefaultOrder

TriggeringOrder(incomplete) ==
    IF Len(incomplete) > 0 THEN incomplete[1] ELSE DefaultOrder

\* the arguments of a dispatch call as the call leaves them
\* (dispatcher.py:38-119 assigns to none of them), and a variant that takes the
\* latest bar off its list
ArgumentsAfterPop(args) ==
    IF args.market_data_context # <<>> /\ args.market_data_context[1].bars # <<>>
    THEN [args EXCEPT !.market_data_context[1].bars = SubSeq(@, 1, Len(@) - 1)]
    ELSE args

ArgumentsAfterDispatch(args) == args

dispatch(strategy_functions, trigger_type, trigger_detail, context, market_data_context, incomplete) ==
    IF trigger_type \notin TriggerType
    THEN DispatchRaised("ValueError")           \* TriggerType(trigger_type)
    ELSE IF trigger_type = INVALID_TRIGGER_TYPE
    THEN DispatchResult(None, None, NoArgs)
    ELSE LET function_name == TRIGGER_TO_FUNCTION(trigger_type) IN
    IF function_name = None
    THEN DispatchResult(None, None, NoArgs)
    ELSE LET func == GetFunction(strategy_functions, function_name) IN
    IF func = None
    THEN DispatchResult(function_name, None, NoArgs)
    ELSE IF trigger_type = MARKET_DATA_TRIGGER_TYPE
    THEN IF market_data_context = <<>> \/ market_data_context[1].bars = <<>>
         THEN DispatchResult(function_name, None, NoArgs)
         ELSE LET latest_bar_data == LatestBarData(market_data_context)
              IN DispatchResult(function_name, func,
                                [context |-> context, arg |-> Bar(latest_bar_data)])
    ELSE IF trigger_type = ORDER_STATUS_TRIGGER_TYPE
    THEN LET order == TriggeringOrder(incomplete)
         IN DispatchResult(function_name, func,
                           [context |-> context, arg |-> order])
    ELSE IF trigger_type = RISK_MANAGE_TRIGGER_TYPE
    THEN DispatchResult(function_name, func,
                        [context |-> context, arg |-> RiskEvent(trigger_detail)])
    ELSE DispatchResult(None, None, NoArgs)

\* ------------------------------------------------------------------------
\* Context order operations (engine/context/context.py:372-500)
\* ------------------------------------------------------------------------
Symbols == {"BTCUSDT"}
Quantities == {2}
\* an optional price: <<>> is None, <<p>> is the price p
Prices == {<<>>, <<0>>, <<1>>}

\* str(price) of a float price
str(price) ==
    CASE price = 0 -> "0.0"
      [] price = 1 -> "1.0"
      [] OTHER -> ToString(price) \o ".0"

\* f"{exec_id}_{uuid.uuid4().hex[:8]}": uuid is the value uuid4 yields, fresh per call
UniqueId(exec_id, uuid) == exec_id \o "_" \o ToString(uuid)

\* the Create operation appended by _create_order for an Order
CreateOperation(order) ==
    [order_op_type |-> CREATE_ORDER_OP_TYPE,
     order |-> [unique_id |-> order.unique_id,
                symbol |-> order.symbol,
                direction_type |-> order.direction_type,
                order_type |-> order.order_type,
                qty |-> order.qty,
                limit_price |-> order.limit_price,
                time_in_force |-> GTC_TIME_IN_FORCE_TYPE]]

\* the Cancel operation appended by cancel_order
CancelOperation(order_id) ==
    [order_op_type |-> WITHDRAW_ORDER_OP_TYPE, order |-> [order_id |-> order_id]]

\* the order type _create_order chooses (context.py:461-464), with a truthiness
\* test in place of "is not None" in the variant
OrderTypeByTruthiness(price) ==
    IF price # <<>> /\ price[1] # 0 THEN LIMIT_ORDER_TYPE ELSE MARKET_ORDER_TYPE

OrderTypeFor(price) ==
    IF price # <<>> THEN LIMIT_ORDER_TYPE ELSE MARKET_ORDER_TYPE

\* Context._create_order: the Order it returns and the ledger it leaves
create_order(exec_id, uuid, ops, symbol, quantity, direction_type, price) ==
    LET order == [kind |-> "Order",
                  order_id |-> "",
                  unique_id |-> UniqueId(exec_id, uuid),
                  symbol |-> symbol,
                  direction_type |-> direction_type,
                  order_type |-> OrderTypeFor(price),
                  qty |-> quantity,
                  limit_price |-> IF price # <<>> THEN str(price[1]) ELSE None,
                  status |-> NEW_ORDER_STATUS_TYPE]
    IN [ret |-> order, ops |-> Append(ops, CreateOperation(order))]

\* Context.order_buy / order_sell
order_buy(exec_id, uuid, ops, symbol, quantity, price) ==
    create_order(exec_id, uuid, ops, symbol, quantity, BUY_DIRECTION_TYPE, price)

order_sell(exec_id, uuid, ops, symbol, quantity, price) ==
    create_order(exec_id, uuid, ops, symbol, quantity, SELL_DIRECTION_TYPE, price)

\* the search of cancel_order (context.py:431-435)
OrderFound(incomplete, order_id) ==
    \E i \in 1..Len(incomplete) :
        incomplete[i].order_id = order_id \/ incomplete[i].unique_id = order_id

\* a variant of cancel_order that also accepts the orders created on this Context
CancelOrderAlsoCreated(incomplete, ops, order_id) ==
    IF /\ ~OrderFound(incomplete, order_id)
       /\ ~\E i \in 1..Len(ops) : /\ ops[i].order_op_type = CREATE_ORDER_OP_TYPE
                                  /\ ops[i].order.unique_id = order_id
    THEN [ret |-> FALSE, ops |-> ops]
    ELSE [ret |-> TRUE, ops |-> Append(ops, CancelOperation(order_id))]

\* Context.cancel_order: its result and the ledger it leaves
cancel_order(incomplete, ops, order_id) ==
    IF ~OrderFound(incomplete, order_id)
    THEN [ret |-> FALSE, ops |-> ops]
    ELSE [ret |-> TRUE, ops |-> Append(ops, CancelOperation(order_id))]

\* Context.get_order_operations and two variants of it.  A returned list is an
\* object of its own (alias FALSE) or the ledger object itself (alias TRUE).
GetOrderOperationsDrain(ops) ==
    [ret |-> [alias |-> FALSE, items |-> ops], ops |-> <<>>]

GetOrderOperationsNoCopy(ops) ==
    [ret |-> [alias |-> TRUE, items |-> ops], ops |-> ops]

get_order_operations(ops) ==
    [ret |-> [alias |-> FALSE, items |-> ops], ops |-> ops]

\* ------------------------------------------------------------------------
\* Request payloads the specifications draw from
\* ------------------------------------------------------------------------
BarData(open_time, close_time, close) ==
    [keys |-> {"open_time", "close_time", "close"},
     open_time |-> open_time, close_time |-> close_time, close |-> close]

Bar1 == BarData(1000, 2000, "105.0")
Bar2 == BarData(2000, 3000, "110.0")
\* a bar dictionary that holds only its close
BarCloseOnly == [keys |-> {"close"}, open_time |-> 0, close_time |-> 0, close |-> "99.0"]

Block(bars) == [symbol |-> "BTCUSDT", timeframe |-> "1h", bars |-> bars]

MarketDataChoices ==
    { <<>>, <<Block(<<>>)>>, <<Block(<<Bar1, Bar2>>)>>,
      <<Block(<<Bar1>>), Block(<<Bar2>>)>>, <<Block(<<>>), Block(<<Bar1>>)>>,
      <<Block(<<Bar2, BarCloseOnly>>)>> }

\* an Order of the request's incomplete_orders, as _build_context builds it
IncompleteOrder(order_id, unique_id) ==
    [kind |-> "Order", order_id |-> order_id, unique_id |-> unique_id,
     symbol |-> "BTCUSDT", direction_type |-> BUY_DIRECTION_TYPE,
     order_type |-> LIMIT_ORDER_TYPE, qty |-> 1, limit_price |-> "1.0",
     status |-> NEW_ORDER_STATUS_TYPE]

IncompleteChoices ==
    { <<>>,
      <<IncompleteOrder("order123", "unique123")>>,
      <<IncompleteOrder("o1", "k1"), IncompleteOrder("", "k2")>> }

TriggerDetailChoices ==
    { [keys |-> {}, risk_event_type |-> 0, remark |-> ""],
      [keys |-> {"risk_event_type", "remark"}, risk_event_type |-> 7, remark |-> "margin"] }

OptionalFunctions == {"handle_bar", "on_order", "on_risk_event"}

\* ------------------------------------------------------------------------
\* Idle values: what a group of variables holds in a specification that
\* does not drive it
\* ------------------------------------------------------------------------
NotCalled == [exc |-> "NotCalled", name |-> None, func |-> None, args |-> NoArgs]

DispIdle ==
    /\ dIn = [strategy_functions |-> {}, trigger_type |-> 0,
              trigger_detail |-> [keys |-> {}, risk_event_type |-> 0, remark |-> ""],
              context |-> 1, market_data_context |-> <<>>, incomplete_orders |-> <<>>]
    /\ dOut = NotCalled
    /\ dPrev = NotCalled

NoCall ==
    [op |-> "none", order_id |-> "", symbol |-> "", quantity |-> 0, price |-> <<>>,
     ret_bool |-> FALSE, ret_order |-> DefaultOrder, ret_items |-> <<>>,
     before |-> <<>>, mutated |-> FALSE, n |-> 0]

NoPrevGet == [valid |-> FALSE, items |-> <<>>, mutated |-> FALSE]
NoReturned == [valid |-> FALSE, alias |-> FALSE, items |-> <<>>]

CtxIdle ==
    /\ incomplete_orders = <<>>
    /\ order_operations = <<>>
    /\ uuidNext = 1
    /\ returned = NoReturned
    /\ lastCall = NoCall
    /\ prevGet = NoPrevGet

\* ------------------------------------------------------------------------
\* Engines, threads and requests
\* ------------------------------------------------------------------------
Engines == {"A", "B"}
Threads == {"t1", "t2"}
ExecIds == {"x1", "x2"}

\* a strategy file: whether it defines initialize, and the optional callbacks it defines
GoodFile == [has_initialize |-> TRUE, functions |-> {"handle_bar", "on_order"}]
NoInitializeFile == [has_initialize |-> FALSE, functions |-> {"handle_bar"}]

\* an ExecRequest: well_formed is FALSE for a request whose account or order
\* entries are not dictionaries, on which _build_context raises
Request(exec_id, trigger_type, well_formed) ==
    [exec_id |-> exec_id, trigger_type |-> trigger_type, well_formed |-> well_formed,
     trigger_detail |-> [keys |-> {}, risk_event_type |-> 0, remark |-> ""],
     market_data_context |-> <<Block(<<Bar1, Bar2>>)>>,
     incomplete_orders |-> <<IncompleteOrder("order123", "unique123")>>]

Requests ==
    { Request("x1", MARKET_DATA_TRIGGER_TYPE, TRUE),
      Request("x2", RISK_MANAGE_TRIGGER_TYPE, TRUE),
      Request("x1", 4, TRUE),
      Request("x1", MARKET_DATA_TRIGGER_TYPE, FALSE) }

\* what a strategy hook or callback does at its end: <<>> it returns,
\* <<msg>> it raises an exception whose str() is msg
Raises == {<<>>, <<"">>}

NoRequest == Request("", INVALID_TRIGGER_TYPE, TRUE)
NoCtx ==
    [id |-> NoContext, exec_id |-> "", ops |-> <<>>, incomplete_orders |-> <<>>,
     strategy_data |-> {}]
NoResponse ==
    [order_op_event |-> <<>>, status |-> -1, error_message |-> "", warnings |-> <<>>]

\* the state of engine e that outlives a request: the functions registered
\* under its strategy module (wealthdata._scheduled_functions) and the exec ids
\* its LifecycleManager holds as initialized
EngineState(sched, inits, ldr, lcs) ==
    [e \in Engines |->
        [scheduled |-> IF ldr[e] = 0 THEN <<>> ELSE sched[ldr[e]],
         initialized |-> IF lcs[e] = 0 THEN {} ELSE inits[lcs[e]]]]

NoEngineState == [e \in Engines |-> [scheduled |-> <<>>, initialized |-> {}]]

\* a thread that is in no call; pre is the EngineState at the begin of a call
IdleCall ==
    [kind |-> "none", n |-> 0, engine |-> "", req |-> NoRequest, lc |-> 0, ctx |-> NoCtx,
     dres |-> NotCalled, exc |-> <<>>, path |-> "", pre |-> NoEngineState]

NoReturn == [kind |-> "none", engine |-> "", exec_id |-> "", path |-> ""]

EngIdle ==
    /\ strategyFile = [e \in Engines |-> GoodFile]
    /\ loaded = [e \in Engines |-> FALSE]
    /\ loader = [e \in Engines |-> 0]
    /\ lifecycle = [e \in Engines |-> 0]
    /\ modules = <<>>
    /\ scheduled = <<>>
    /\ initialized = <<>>
    /\ moduleLocal = [t \in Threads |-> 0]
    /\ contextLocal = [t \in Threads |-> NoContext]
    /\ pc = [t \in Threads |-> "idle"]
    /\ call = [t \in Threads |-> IdleCall]
    /\ response = [t \in Threads |-> NoResponse]
    /\ lastReturn = [t \in Threads |-> NoReturn]
    /\ hookCount = [e \in Engines |-> [x \in ExecIds |-> 0]]
    /\ discarded = {}
    /\ nCalls = 0

\* no run_backtest call
NoBar == [kind |-> "None"]
NoPositions == [s \in {} |-> 0]
NoBacktestInput ==
    [bars |-> <<>>, initial_cash |-> 0, symbol |-> "", timeframe |-> "", callbacks |-> {}]

BtIdle ==
    /\ btIn = NoBacktestInput
    /\ btPc = "idle"
    /\ bar_idx = 0
    /\ current_cash = 0
    /\ positions = NoPositions
    /\ all_orders = <<>>
    /\ btMarketData = <<>>
    /\ current_bar = NoBar
    /\ portfolio = [available_cash |-> 0, positions |-> NoPositions]
    /\ order_ops = <<>>
    /\ opIdx = 0
    /\ queuedAt = NoPositions
    /\ rejected = {}

\* no is_time_match / is_trade_day call and no before_trading call
NoTimeInput == [kind |-> "None"]
NoTimeResult == [kind |-> "NotCalled"]
NoSchedInput == [kind |-> "None"]

CalIdle ==
    /\ tIn = NoTimeInput
    /\ tOut = NoTimeResult

SchedIdle ==
    /\ schedIn = NoSchedInput
    /\ schedPc = "idle"
    /\ schedIdx = 0
    /\ invoked = <<>>
    /\ resolved = <<>>
    /\ schedOut = "none"
    /\ invokedBefore = <<>>

\* no Context whose Account is followed
NoAccount == [kind |-> "None"]
NotQueried == [kind |-> "NotQueried"]

PfIdle ==
    /\ account = NoAccount
    /\ ctxPortfolio = NoAccount
    /\ queried = NotQueried
    /\ nAccount = 0

\* no order_value call and no Context for it
NoOrderValueCall == [op |-> "none"]

OvIdle ==
    /\ ovIn = NoAccount
    /\ ovOut = NoOrderValueCall

\* no history call and no market data for it
HistIdle ==
    /\ hIn = <<>>
    /\ hOut = NoOrderValueCall

\* no WebSocketCache
CacheIdle ==
    /\ wcache = NoAccount
    /\ added = <<>>

\* no WebSocketClient
WsIdle ==
    /\ max_reconnect_attempts = 0
    /\ ws_state = "none"
    /\ should_reconnect = FALSE
    /\ reconnect_attempts = 0
    /\ sockets = <<>>
    /\ reconnectThreads = [sleep |-> 0, connect |-> 0]
    /\ userPc = "none"
    /\ disconnected = FALSE
    /\ attemptsSinceOpen = 0
    /\ nUser = 0

LateIdle == HistIdle /\ CacheIdle /\ WsIdle

CompatIdle == CalIdle /\ SchedIdle /\ PfIdle /\ OvIdle /\ LateIdle

\* ------------------------------------------------------------------------
\* SpecDispatch: two calls of EventDispatcher.dispatch on inputs drawn from
\* the bounded payload sets
\* ------------------------------------------------------------------------
InitDispatch ==
    /\ dIn \in [strategy_functions : SUBSET OptionalFunctions,
                trigger_type : TriggerInputs,
                trigger_detail : TriggerDetailChoices,
                context : {1},
                market_data_context : MarketDataChoices,
                incomplete_orders : IncompleteChoices]
    /\ dOut = NotCalled
    /\ dPrev = NotCalled
    /\ CtxIdle
    /\ EngIdle
    /\ BtIdle
    /\ CompatIdle

\* a caller calls dispatch, and once more with the arguments the first call left
Dispatch ==
    /\ dPrev = NotCalled
    /\ dOut' = dispatch(dIn.strategy_functions, dIn.trigger_type, dIn.trigger_detail,
                        dIn.context, dIn.market_data_context, dIn.incomplete_orders)
    /\ dPrev' = dOut
    /\ dIn' = ArgumentsAfterDispatch(dIn)
    /\ UNCHANGED <<ctxVars, engVars, btVars, compatVars>>

NextDispatch == Dispatch

SpecDispatch == InitDispatch /\ [][NextDispatch]_vars

\* ------------------------------------------------------------------------
\* SpecCtx: one Context, driven by the calls a strategy callback can make
\* ------------------------------------------------------------------------
CtxExecId == "test_exec"

InitCtx ==
    /\ incomplete_orders \in IncompleteChoices
    /\ order_operations = <<>>
    /\ uuidNext = 1
    /\ returned = NoReturned
    /\ lastCall = NoCall
    /\ prevGet = NoPrevGet
    /\ DispIdle
    /\ EngIdle
    /\ BtIdle
    /\ CompatIdle

\* the unique ids of the orders created on this Context so far
CreatedIds ==
    { order_operations[i].order.unique_id :
        i \in { j \in 1..Len(order_operations) :
                  order_operations[j].order_op_type = CREATE_ORDER_OP_TYPE } }

\* the ids cancel_order is called with
CancelIds == {"order123", "k2", "", "nope"} \cup CreatedIds

OrderBuy(symbol, quantity, price) ==
    /\ lastCall.n < MaxCtxCalls
    /\ LET r == order_buy(CtxExecId, uuidNext, order_operations, symbol, quantity, price)
       IN /\ order_operations' = r.ops
          /\ lastCall' = [NoCall EXCEPT !.op = "order_buy", !.symbol = symbol,
                             !.quantity = quantity, !.price = price, !.ret_order = r.ret,
                             !.before = order_operations, !.n = lastCall.n + 1]
    /\ uuidNext' = uuidNext + 1
    /\ prevGet' = NoPrevGet
    /\ UNCHANGED <<incomplete_orders, returned, dispVars, engVars, btVars, compatVars>>

OrderSell(symbol, quantity, price) ==
    /\ lastCall.n < MaxCtxCalls
    /\ LET r == order_sell(CtxExecId, uuidNext, order_operations, symbol, quantity, price)
       IN /\ order_operations' = r.ops
          /\ lastCall' = [NoCall EXCEPT !.op = "order_sell", !.symbol = symbol,
                             !.quantity = quantity, !.price = price, !.ret_order = r.ret,
                             !.before = order_operations, !.n = lastCall.n + 1]
    /\ uuidNext' = uuidNext + 1
    /\ prevGet' = NoPrevGet
    /\ UNCHANGED <<incomplete_orders, returned, dispVars, engVars, btVars, compatVars>>

CancelOrder(order_id) ==
    /\ lastCall.n < MaxCtxCalls
    /\ LET r == cancel_order(incomplete_orders, order_operations, order_id)
       IN /\ order_operations' = r.ops
          /\ lastCall' = [NoCall EXCEPT !.op = "cancel_order", !.order_id = order_id,
                             !.ret_bool = r.ret,
                             !.before = order_operations, !.n = lastCall.n + 1]
    /\ prevGet' = NoPrevGet
    /\ UNCHANGED <<incomplete_orders, uuidNext, returned, dispVars, engVars, btVars,
                   compatVars>>

GetOrderOperations ==
    /\ lastCall.n < MaxCtxCalls
    /\ LET r == get_order_operations(order_operations)
       IN /\ order_operations' = r.ops
          /\ returned' = [valid |-> TRUE, alias |-> r.ret.alias, items |-> r.ret.items]
          /\ lastCall' = [NoCall EXCEPT !.op = "get_order_operations",
                             !.ret_items = r.ret.items,
                             !.before = order_operations, !.n = lastCall.n + 1]
    /\ prevGet' = IF lastCall.op = "get_order_operations"
                  THEN [valid |-> TRUE, items |-> lastCall.ret_items,
                        mutated |-> lastCall.mutated]
                  ELSE NoPrevGet
    /\ UNCHANGED <<incomplete_orders, uuidNext, dispVars, engVars, btVars, compatVars>>

\* what the caller does to a list it holds: append an element of its own, or
\* remove the last one
Mutations == {"append", "pop"}
Mutate(items, how) ==
    IF how = "append" THEN Append(items, CancelOperation("callers-own"))
    ELSE SubSeq(items, 1, Len(items) - 1)

\* the caller changes the list the last get_order_operations returned; a list
\* that is the ledger object itself changes the ledger with it
MutateReturned(how) ==
    /\ lastCall.n < MaxCtxCalls
    /\ returned.valid
    /\ LET items == IF returned.alias THEN order_operations ELSE returned.items
       IN /\ how = "pop" => items # <<>>
          /\ IF returned.alias
             THEN /\ order_operations' = Mutate(items, how)
                  /\ returned' = [returned EXCEPT !.items = Mutate(items, how)]
             ELSE /\ order_operations' = order_operations
                  /\ returned' = [returned EXCEPT !.items = Mutate(items, how)]
    /\ lastCall' = [lastCall EXCEPT !.mutated = TRUE, !.n = lastCall.n + 1]
    /\ UNCHANGED <<incomplete_orders, uuidNext, prevGet, dispVars, engVars, btVars,
                   compatVars>>

NextCtx ==
    \/ \E symbol \in Symbols, quantity \in Quantities, price \in Prices :
          OrderBuy(symbol, quantity, price)
    \/ \E symbol \in Symbols, quantity \in Quantities, price \in Prices :
          OrderSell(symbol, quantity, price)
    \/ \E order_id \in CancelIds : CancelOrder(order_id)
    \/ GetOrderOperations
    \/ \E how \in Mutations : MutateReturned(how)

SpecCtx == InitCtx /\ [][NextCtx]_vars

\* ------------------------------------------------------------------------
\* Thread-local and module-level state of the wealthdata modules
\* ------------------------------------------------------------------------
\* engine/wealthdata/wealthdata.py: set_context, clear_context on thread t
set_context(slots, t, context) == [slots EXCEPT ![t] = context]

ClearContextKeeps(slots, t) == slots

clear_context(slots, t) == [slots EXCEPT ![t] = NoContext]

\* wealthdata.py: _set_strategy_module on thread t
SetStrategyModule(slots, t, module) == [slots EXCEPT ![t] = module]

\* the entry run_daily appends for a function of strategy e
ScheduledEntry(e) ==
    [func |-> [strategy |-> e, name |-> "scheduled_func"],
     time |-> "before_open", reference_security |-> "BTCUSDT"]

\* wealthdata.py: run_daily with the current strategy module = module (not None)
run_daily(registry, module, entry) ==
    [registry EXCEPT ![module] = Append(registry[module], entry)]

\* wealthdata.py: get_scheduled_functions
get_scheduled_functions(registry, module) == registry[module]

\* ------------------------------------------------------------------------
\* StrategyExecutionEngine.execute / load_strategy, LifecycleManager.initialize
\* (engine/engine.py, engine/lifecycle/lifecycle.py), one action per step
\* ------------------------------------------------------------------------
InitEng ==
    /\ strategyFile \in { [e \in Engines |-> GoodFile],
                          [e \in Engines |-> IF e = "B" THEN NoInitializeFile
                                             ELSE GoodFile] }
    /\ loaded = [e \in Engines |-> FALSE]
    /\ loader = [e \in Engines |-> 0]
    /\ lifecycle = [e \in Engines |-> 0]
    /\ modules = <<>>
    /\ scheduled = <<>>
    /\ initialized = <<>>
    /\ moduleLocal = [t \in Threads |-> 0]
    /\ contextLocal = [t \in Threads |-> NoContext]
    /\ pc = [t \in Threads |-> "idle"]
    /\ call = [t \in Threads |-> IdleCall]
    /\ response = [t \in Threads |-> NoResponse]
    /\ lastReturn = [t \in Threads |-> NoReturn]
    /\ hookCount = [e \in Engines |-> [x \in ExecIds |-> 0]]
    /\ discarded = {}
    /\ nCalls = 0
    /\ DispIdle
    /\ CtxIdle
    /\ BtIdle
    /\ CompatIdle

\* a thread calls engine.execute(req)
BeginExecute(t, e, req, max) ==
    /\ pc[t] = "idle"
    /\ nCalls < max
    /\ nCalls' = nCalls + 1
    /\ pc' = [pc EXCEPT ![t] = "execute"]
    /\ call' = [call EXCEPT ![t] = [IdleCall EXCEPT !.kind = "execute", !.engine = e,
                                                    !.req = req, !.n = nCalls + 1,
                                                    !.pre = EngineState(scheduled,
                                                        initialized, loader, lifecycle)]]
    /\ response' = [response EXCEPT ![t] = NoResponse]
    /\ lastReturn' = [lastReturn EXCEPT ![t] = NoReturn]
    /\ UNCHANGED <<strategyFile, loaded, loader, lifecycle, modules, scheduled,
                   initialized, moduleLocal, contextLocal, hookCount, discarded,
                   ctxVars, dispVars, btVars, compatVars>>

\* a thread calls engine.load_strategy() directly
BeginLoadStrategy(t, e, max) ==
    /\ pc[t] = "idle"
    /\ nCalls < max
    /\ nCalls' = nCalls + 1
    /\ pc' = [pc EXCEPT ![t] = "load_strategy"]
    /\ call' = [call EXCEPT ![t] = [IdleCall EXCEPT !.kind = "load_strategy",
                                                    !.engine = e, !.n = nCalls + 1]]
    /\ response' = [response EXCEPT ![t] = NoResponse]
    /\ lastReturn' = [lastReturn EXCEPT ![t] = NoReturn]
    /\ UNCHANGED <<strategyFile, loaded, loader, lifecycle, modules, scheduled,
                   initialized, moduleLocal, contextLocal, hookCount, discarded,
                   ctxVars, dispVars, btVars, compatVars>>

\* engine.py:83  if not self._loaded: self.load_strategy()
ExecCheckLoaded(t) ==
    /\ pc[t] = "execute"
    /\ pc' = [pc EXCEPT ![t] = IF loaded[call[t].engine] THEN "build_context"
                               ELSE "load_strategy"]
    /\ UNCHANGED <<strategyFile, loaded, loader, lifecycle, modules, scheduled,
                   initialized, moduleLocal, contextLocal, call, response, lastReturn,
                   hookCount, discarded, nCalls, ctxVars, dispVars, btVars, compatVars>>

\* load_strategy returns: into execute, or to the direct caller
ReturnFromLoad(t, path) ==
    IF call[t].kind = "execute"
    THEN /\ pc' = [pc EXCEPT ![t] = "build_context"]
         /\ UNCHANGED <<call, lastReturn>>
    ELSE /\ pc' = [pc EXCEPT ![t] = "idle"]
         /\ call' = [call EXCEPT ![t] = IdleCall]
         /\ lastReturn' = [lastReturn EXCEPT ![t] =
                [kind |-> "load_strategy", engine |-> call[t].engine, exec_id |-> "",
                 path |-> path]]

\* engine.py:42  if self._loaded: return
LoadCheck(t) ==
    /\ pc[t] = "load_strategy"
    /\ IF loaded[call[t].engine]
       THEN ReturnFromLoad(t, "already_loaded")
       ELSE /\ pc' = [pc EXCEPT ![t] = "loader_load"]
            /\ UNCHANGED <<call, lastReturn>>
    /\ UNCHANGED <<strategyFile, loaded, loader, lifecycle, modules, scheduled,
                   initialized, moduleLocal, contextLocal, response, hookCount,
                   discarded, nCalls, ctxVars, dispVars, btVars, compatVars>>

\* a variant of the loader that accepts a file without initialize
RequiredFunctionNotChecked(file) == TRUE

\* loader.py:98-102: the executed module defines the required initialize
HasRequiredFunction(file) == file.has_initialize

\* engine.py:46-47 and loader.py:38-117: a new module object is created and set
\* as the thread's current strategy module before its code runs; a file without
\* initialize raises ValueError
LoaderLoad(t) ==
    /\ pc[t] = "loader_load"
    /\ LET e == call[t].engine
           m == Len(modules) + 1
       IN /\ modules' = Append(modules, e)
          /\ scheduled' = Append(scheduled, <<>>)
          /\ loader' = [loader EXCEPT ![e] = m]
          /\ moduleLocal' = SetStrategyModule(moduleLocal, t, m)
          /\ IF HasRequiredFunction(strategyFile[e])
             THEN /\ pc' = [pc EXCEPT ![t] = "load_assign"]
                  /\ UNCHANGED <<call, lastReturn>>
             ELSE IF call[t].kind = "execute"
             THEN /\ pc' = [pc EXCEPT ![t] = "except"]
                  /\ call' = [call EXCEPT ![t].path = "load_failure",
                                          ![t].exc = <<"Strategy file must define 'initialize' function">>]
                  /\ UNCHANGED lastReturn
             ELSE /\ pc' = [pc EXCEPT ![t] = "idle"]
                  /\ call' = [call EXCEPT ![t] = IdleCall]
                  /\ lastReturn' = [lastReturn EXCEPT ![t] =
                         [kind |-> "load_strategy", engine |-> e, exec_id |-> "",
                          path |-> "load_failure"]]
    /\ UNCHANGED <<strategyFile, loaded, lifecycle, initialized, contextLocal,
                   response, hookCount, discarded, nCalls, ctxVars, dispVars, btVars,
                   compatVars>>

\* engine.py:50-53: a new EventDispatcher and LifecycleManager, then _loaded = True
LoadAssign(t) ==
    /\ pc[t] = "load_assign"
    /\ initialized' = Append(initialized, {})
    /\ lifecycle' = [lifecycle EXCEPT ![call[t].engine] = Len(initialized) + 1]
    /\ loaded' = [loaded EXCEPT ![call[t].engine] = TRUE]
    /\ ReturnFromLoad(t, "loaded")
    /\ UNCHANGED <<strategyFile, loader, modules, scheduled, moduleLocal, contextLocal,
                   response, hookCount, discarded, nCalls, ctxVars, dispVars, btVars,
                   compatVars>>

\* engine.py:87-91: _build_context, then set_context
BuildContext(t) ==
    /\ pc[t] = "build_context"
    /\ IF call[t].req.well_formed
       THEN /\ call' = [call EXCEPT ![t].ctx =
                           [id |-> call[t].n, exec_id |-> call[t].req.exec_id,
                            ops |-> <<>>,
                            incomplete_orders |-> call[t].req.incomplete_orders,
                            strategy_data |-> {}]]
            /\ contextLocal' = set_context(contextLocal, t, call[t].n)
            /\ pc' = [pc EXCEPT ![t] = "initialize"]
       ELSE /\ call' = [call EXCEPT ![t].path = "build_failure",
                                    ![t].exc = <<"'str' object has no attribute 'get'">>]
            /\ pc' = [pc EXCEPT ![t] = "except"]
            /\ UNCHANGED contextLocal
    /\ UNCHANGED <<strategyFile, loaded, loader, lifecycle, modules, scheduled,
                   initialized, moduleLocal, response, lastReturn, hookCount,
                   discarded, nCalls, ctxVars, dispVars, btVars, compatVars>>

\* what a strategy hook or callback queues: k market buy orders, one after the
\* other, through Context.order_buy
RECURSIVE QueueOrders(_, _, _, _)
QueueOrders(exec_id, uuid, ops, k) ==
    IF k = 0 THEN ops
    ELSE QueueOrders(exec_id, uuid + 1,
                     order_buy(exec_id, uuid, ops, "BTCUSDT", 2, <<>>).ops, k - 1)

\* uuid.uuid4() in a callback running on Context ctx: a value no other call of
\* it yields, here the Context's number followed by the position in its ledger
Uuid(ctx) == 10 * ctx.id + Len(ctx.ops) + 1

\* the unique ids of the Create operations of a ledger
UniqueIds(ops) ==
    { ops[i].order.unique_id :
        i \in { j \in 1..Len(ops) : ops[j].order_op_type = CREATE_ORDER_OP_TYPE } }

\* the attribute the strategy's initialize sets on the Context and its callbacks
\* read (context.order_placed in tests/test_engine.py:17-22)
HookAttribute == "order_placed"

\* Context.__setattr__ and __getattr__ (context.py:311-331) on the names of
\* _strategy_data, the dictionary each Context object is built with (line 226):
\* a name that is not a known attribute is stored there, and a read finds it
\* there or raises AttributeError
setattr(strategy_data, name) == strategy_data \cup {name}

hasattr(strategy_data, name) == name \in strategy_data

\* engine.py:97 and lifecycle.py:41-43: self.lifecycle.initialize(context) looks the
\* exec_id up in the set of initialized ids
InitCheck(t) ==
    /\ pc[t] = "initialize"
    /\ LET lc == lifecycle[call[t].engine]
       IN /\ call' = [call EXCEPT ![t].lc = lc]
          /\ pc' = [pc EXCEPT ![t] = IF call[t].ctx.exec_id \in initialized[lc]
                                     THEN "dispatch" ELSE "init_hook"]
    /\ UNCHANGED <<strategyFile, loaded, loader, lifecycle, modules, scheduled,
                   initialized, moduleLocal, contextLocal, response, lastReturn,
                   hookCount, discarded, nCalls, ctxVars, dispVars, btVars, compatVars>>

\* lifecycle.py:45-47: init_func(context).  The strategy's initialize calls
\* run_daily (RuntimeError when the thread has no current strategy module),
\* sets its attribute on the Context, queues k orders, then returns or raises.
InitHook(t, k, raises) ==
    /\ pc[t] = "init_hook"
    /\ Len(call[t].ctx.ops) + k <= MaxOrders
    /\ LET e == call[t].engine
           x == call[t].ctx.exec_id
           m == moduleLocal[t]
       IN /\ hookCount' = [hookCount EXCEPT ![e][x] = @ + 1]
          /\ IF m = 0
             THEN /\ k = 0 /\ raises = <<>>
                  /\ call' = [call EXCEPT ![t].path = "init_raise",
                                          ![t].exc = <<"No strategy module available.">>]
                  /\ pc' = [pc EXCEPT ![t] = "finally"]
                  /\ UNCHANGED scheduled
             ELSE /\ scheduled' = run_daily(scheduled, m, ScheduledEntry(e))
                  /\ call' = [call EXCEPT
                                ![t].ctx.ops = QueueOrders(x, Uuid(call[t].ctx), @, k),
                                ![t].ctx.strategy_data = setattr(@, HookAttribute),
                                ![t].path = IF raises = <<>> THEN @ ELSE "init_raise",
                                ![t].exc = raises]
                  /\ pc' = [pc EXCEPT ![t] = IF raises = <<>> THEN "init_mark"
                                             ELSE "finally"]
    /\ UNCHANGED <<strategyFile, loaded, loader, lifecycle, modules, initialized,
                   moduleLocal, contextLocal, response, lastReturn, discarded, nCalls,
                   ctxVars, dispVars, btVars, compatVars>>

\* lifecycle.py:48: self._initialized_contexts.add(context_id)
InitMark(t) ==
    /\ pc[t] = "init_mark"
    /\ initialized' = [initialized EXCEPT ![call[t].lc] = @ \cup {call[t].ctx.exec_id}]
    /\ pc' = [pc EXCEPT ![t] = "dispatch"]
    /\ UNCHANGED <<strategyFile, loaded, loader, lifecycle, modules, scheduled,
                   moduleLocal, contextLocal, call, response, lastReturn, hookCount,
                   discarded, nCalls, ctxVars, dispVars, btVars, compatVars>>

\* engine.py:104-116: self.dispatcher.dispatch(...)
ExecDispatch(t) ==
    /\ pc[t] = "dispatch"
    /\ LET req == call[t].req
           dres == dispatch(strategyFile[call[t].engine].functions, req.trigger_type,
                            req.trigger_detail, call[t].ctx.id,
                            req.market_data_context, call[t].ctx.incomplete_orders)
       IN IF dres.exc # None
          THEN /\ call' = [call EXCEPT ![t].dres = dres, ![t].path = "dispatch_raise",
                                       ![t].exc = <<"4 is not a valid TriggerType">>]
               /\ pc' = [pc EXCEPT ![t] = "finally"]
          ELSE /\ call' = [call EXCEPT ![t].dres = dres]
               /\ pc' = [pc EXCEPT ![t] = IF dres.func = None THEN "collect"
                                          ELSE "callback"]
    /\ UNCHANGED <<strategyFile, loaded, loader, lifecycle, modules, scheduled,
                   initialized, moduleLocal, contextLocal, response, lastReturn,
                   hookCount, discarded, nCalls, ctxVars, dispVars, btVars, compatVars>>

\* engine.py:119-120: func(*func_args).  The callback queues k orders, then
\* returns or raises.
Callback(t, k, raises) ==
    /\ pc[t] = "callback"
    /\ Len(call[t].ctx.ops) + k <= MaxOrders
    /\ call' = [call EXCEPT
                  ![t].ctx.ops = QueueOrders(call[t].ctx.exec_id, Uuid(call[t].ctx), @, k),
                  ![t].path = IF raises = <<>> THEN @ ELSE "callback_raise",
                  ![t].exc = raises]
    /\ pc' = [pc EXCEPT ![t] = IF raises = <<>> THEN "collect" ELSE "finally"]
    /\ UNCHANGED <<strategyFile, loaded, loader, lifecycle, modules, scheduled,
                   initialized, moduleLocal, contextLocal, response, lastReturn,
                   hookCount, discarded, nCalls, ctxVars, dispVars, btVars, compatVars>>

\* engine.py:126-131: the response of a call that raised nothing
SuccessResponse(order_operations_copy) ==
    [order_op_event |-> order_operations_copy, status |-> STATUS_SUCCESS,
     error_message |-> "", warnings |-> <<>>]

\* engine.py:139-154: the response of a call that raised; error_message is
\* str(e), a newline and the formatted traceback
FailedResponse(error_msg) ==
    [order_op_event |-> <<>>, status |-> STATUS_FAILED,
     error_message |-> error_msg \o "\n" \o "Traceback (most recent call last): ...",
     warnings |-> <<>>]

\* the call returns resp on the path it took
Return(t, resp) ==
    /\ response' = [response EXCEPT ![t] = resp]
    /\ lastReturn' = [lastReturn EXCEPT ![t] =
           [kind |-> "execute", engine |-> call[t].engine,
            exec_id |-> call[t].req.exec_id, path |-> call[t].path]]
    /\ call' = [call EXCEPT ![t] = IdleCall]
    /\ pc' = [pc EXCEPT ![t] = "idle"]

\* engine.py:123-135: get_order_operations, the Success response, and the
\* finally clause on the way out
Collect(t) ==
    /\ pc[t] = "collect"
    /\ contextLocal' = clear_context(contextLocal, t)
    /\ LET r == get_order_operations(call[t].ctx.ops)
       IN /\ response' = [response EXCEPT ![t] = SuccessResponse(r.ret.items)]
          /\ lastReturn' = [lastReturn EXCEPT ![t] =
                 [kind |-> "execute", engine |-> call[t].engine,
                  exec_id |-> call[t].req.exec_id, path |-> "success"]]
    /\ call' = [call EXCEPT ![t] = IdleCall]
    /\ pc' = [pc EXCEPT ![t] = "idle"]
    /\ UNCHANGED <<strategyFile, loaded, loader, lifecycle, modules, scheduled,
                   initialized, moduleLocal, hookCount, discarded, nCalls, ctxVars,
                   dispVars, btVars, compatVars>>

\* engine.py:133-135: the finally clause with an exception in flight; the
\* Context and the operations queued on it are dropped with the frame
Finally(t) ==
    /\ pc[t] = "finally"
    /\ contextLocal' = clear_context(contextLocal, t)
    /\ discarded' = discarded \cup UniqueIds(call[t].ctx.ops)
    /\ pc' = [pc EXCEPT ![t] = "except"]
    /\ UNCHANGED <<strategyFile, loaded, loader, lifecycle, modules, scheduled,
                   initialized, moduleLocal, call, response, lastReturn, hookCount,
                   nCalls, ctxVars, dispVars, btVars, compatVars>>

\* the except clause, returning resp
ExceptReturning(t, resp) ==
    /\ pc[t] = "except"
    /\ contextLocal' = clear_context(contextLocal, t)
    /\ Return(t, resp)
    /\ UNCHANGED <<strategyFile, loaded, loader, lifecycle, modules, scheduled,
                   initialized, moduleLocal, hookCount, discarded, nCalls, ctxVars,
                   dispVars, btVars, compatVars>>

\* a variant of the except clause that returns the operations queued so far
ExceptKeepsOperations(t) ==
    ExceptReturning(t, [FailedResponse(call[t].exc[1]) EXCEPT
                           !.order_op_event = call[t].ctx.ops])

\* engine.py:137-154: except Exception: clear_context again, the Failed response
Except(t) ==
    ExceptReturning(t, FailedResponse(call[t].exc[1]))

\* every step thread t can take; max bounds the calls, raises is what the
\* strategy's hook and callback may do at their end
Step(t, max, raises) ==
    \/ \E e \in Engines, req \in Requests : BeginExecute(t, e, req, max)
    \/ \E e \in Engines : BeginLoadStrategy(t, e, max)
    \/ ExecCheckLoaded(t)
    \/ LoadCheck(t)
    \/ LoaderLoad(t)
    \/ LoadAssign(t)
    \/ BuildContext(t)
    \/ InitCheck(t)
    \/ \E k \in 0..MaxOrders, r \in raises : InitHook(t, k, r)
    \/ InitMark(t)
    \/ ExecDispatch(t)
    \/ \E k \in 0..MaxOrders, r \in raises : Callback(t, k, r)
    \/ Collect(t)
    \/ Finally(t)
    \/ Except(t)

\* the calls made one after the other, from one thread
Next == Step("t1", MaxCalls, Raises)
Spec == InitEng /\ [][Next]_vars

\* two threads, hooks and callbacks that never raise
NextConc == \E t \in Threads : Step(t, MaxConcCalls, {<<>>})
SpecConc == InitEng /\ [][NextConc]_vars

\* ------------------------------------------------------------------------
\* BacktestEngine.run_backtest (engine/backtest/backtest_engine.py:33-195).
\* Cash, prices and quantities are whole numbers; temp_context is the Context
\* whose ledger is order_operations.
\* ------------------------------------------------------------------------
BtSymbol == "BTCUSDT"
BtTimeframe == "1d"
BtExecId == "backtest_exec"
BtThread == "t1"
\* the Context object temp_context
BtContext == 1
\* currency_type = 4  # CNY
CNY == 4

\* float(s) of a decimal string
float(s) ==
    CASE s = "0" -> 0
      [] s = "0.0" -> 0
      [] s = "1.0" -> 1
      [] s = "2.0" -> 2
      [] s = "3.0" -> 3

\* the bars of a run: bar i opens at 1000 * i
BtCloses == {"1.0", "3.0"}
BtBar(i, close) == BarData(1000 * i, 1000 * i + 999, close)
BtBarChoices ==
    UNION { { [i \in 1..n |-> BtBar(i, c[i])] : c \in [1..n -> BtCloses] } :
            n \in 0..MaxBars }
BtCashChoices == {0, 5}

\* the bar callbacks the strategy module defines (hasattr, lines 120 and 128)
BtCallbackChoices == SUBSET {"before_market_open", "market_open"}

\* what a callback hands to order_buy / order_sell: direction, quantity, price
BtOrderChoices ==
    { [direction_type |-> BUY_DIRECTION_TYPE, quantity |-> 3, price |-> <<1>>],
      [direction_type |-> BUY_DIRECTION_TYPE, quantity |-> 2, price |-> <<>>],
      [direction_type |-> BUY_DIRECTION_TYPE, quantity |-> -2, price |-> <<1>>],
      [direction_type |-> SELL_DIRECTION_TYPE, quantity |-> 2, price |-> <<2>>],
      [direction_type |-> SELL_DIRECTION_TYPE, quantity |-> 3, price |-> <<>>],
      [direction_type |-> SELL_DIRECTION_TYPE, quantity |-> 1, price |-> <<1>>] }

\* positions.get(symbol, 0), positions[symbol] = quantity, del positions[symbol]
PositionsGet(pos, symbol) == IF symbol \in DOMAIN pos THEN pos[symbol] ELSE 0
PositionsSet(pos, symbol, quantity) ==
    [s \in DOMAIN pos \cup {symbol} |-> IF s = symbol THEN quantity ELSE pos[s]]
PositionsDel(pos, symbol) == [s \in DOMAIN pos \ {symbol} |-> pos[s]]

\* Context._initialize_portfolio (context.py:228-290) on the account that
\* _build_exec_request and _update_context_account write: available_cash sums
\* every numeric value of the available_margin dictionary; when the sum is 0 it
\* falls back to the balances, which hold no 'free' entry
AvailableCash(available_margin) ==
    LET sum == available_margin.currency_type + available_margin.amount
    IN IF sum = 0 THEN 0 ELSE sum

update_context_account(cash, pos) ==
    [available_cash |-> AvailableCash([currency_type |-> CNY, amount |-> cash]),
     positions |-> [sym \in DOMAIN pos \ {""} |->
                       [symbol |-> sym, quantity |-> str(pos[sym]),
                        closeable_amount |-> str(pos[sym])]]]

\* historical_bars = bars[:bar_idx + 1], and a variant that exposes every bar
AllBars(bars, idx) == bars

historical_bars(bars, idx) == SubSeq(bars, 1, idx + 1)

\* bars_data[-count:]
LastCount(bars_data, count) ==
    IF count = 0 THEN bars_data
    ELSE IF count > 0
    THEN SubSeq(bars_data, IF Len(bars_data) > count THEN Len(bars_data) - count + 1 ELSE 1,
                Len(bars_data))
    ELSE SubSeq(bars_data, IF Len(bars_data) > -count THEN 1 - count ELSE Len(bars_data) + 1,
                Len(bars_data))

\* Context.history (context.py:333-370)
RECURSIVE history(_, _, _, _)
history(market_data, symbol, count, timeframe) ==
    IF market_data = <<>> THEN <<>>
    ELSE IF market_data[1].symbol = symbol /\ market_data[1].timeframe = timeframe
    THEN LET bars_data == LastCount(market_data[1].bars, count)
         IN [i \in 1..Len(bars_data) |-> Bar(bars_data[i])]
    ELSE history(Tail(market_data), symbol, count, timeframe)

\* the price of an order (backtest_engine.py:146-152): its limit price, else the
\* close of the current bar; and a variant that always takes the close
OrderPriceAlwaysClose(order, bar) == float(bar.close)

OrderPrice(order, bar) ==
    IF order.limit_price # None THEN float(order.limit_price) ELSE float(bar.close)

\* the checks of lines 156 and 168, and a variant that accepts every buy
BuyAcceptedAlways(cash, order_price, order_qty) == TRUE

BuyAccepted(cash, order_price, order_qty) == cash >= order_price * order_qty

SellAccepted(current_position, order_qty) == current_position >= order_qty

\* positions[order_symbol] < 1e-8, for a whole quantity
PositionClosed(quantity) == quantity < 1

\* lines 170-172: the position map after a sell, and a variant that keeps the
\* symbol of a closed position
PositionsAfterSellKeepsSymbol(pos, order_symbol, order_qty) ==
    PositionsSet(pos, order_symbol, PositionsGet(pos, order_symbol) - order_qty)

PositionsAfterSell(pos, order_symbol, order_qty) ==
    LET after == PositionsSet(pos, order_symbol, PositionsGet(pos, order_symbol) - order_qty)
    IN IF PositionClosed(after[order_symbol]) THEN PositionsDel(after, order_symbol)
       ELSE after

\* line 157: current_cash -= order_price * order_qty, and a variant that also
\* charges a fee of 1 that no fill records
CashAfterBuyWithFee(cash, order_price, order_qty) == cash - order_price * order_qty - 1

CashAfterBuy(cash, order_price, order_qty) == cash - order_price * order_qty

\* lines 139-179: one order operation of order_ops is processed
SimulateFill(order_op, cash, pos, bar, idx, bar_data, symbol) ==
    LET unchanged == [cash |-> cash, positions |-> pos, fills |-> <<>>, rejected |-> {}]
    IN IF order_op.order_op_type # CREATE_ORDER_OP_TYPE THEN unchanged
       ELSE LET order == order_op.order
                order_symbol == order.symbol
                order_qty == order.qty
                order_price == OrderPrice(order, bar)
                fill == [order_op |-> order_op, bar_index |-> idx,
                         bar_time |-> Get(bar_data, "open_time", 0),
                         executed_price |-> order_price, executed_qty |-> order_qty]
                dropped == [unchanged EXCEPT !.rejected = {order_op}]
            IN IF order.direction_type = BUY_DIRECTION_TYPE
               THEN IF BuyAccepted(cash, order_price, order_qty)
                    THEN [cash |-> CashAfterBuy(cash, order_price, order_qty),
                          positions |-> PositionsSet(pos, order_symbol,
                                            PositionsGet(pos, order_symbol) + order_qty),
                          fills |-> <<fill>>, rejected |-> {}]
                    ELSE dropped
               ELSE IF order.direction_type = SELL_DIRECTION_TYPE
               THEN IF SellAccepted(PositionsGet(pos, order_symbol), order_qty)
                    THEN [cash |-> cash + order_price * order_qty,
                          positions |-> PositionsAfterSell(pos, order_symbol, order_qty),
                          fills |-> <<fill>>, rejected |-> {}]
                    ELSE dropped
               ELSE unchanged

\* line 182: temp_context._order_operations = [], and a variant that keeps the
\* operations whose check failed
LedgerKeepsRejected(ledger, dropped) ==
    SelectSeq(ledger, LAMBDA op : op \in dropped)

LedgerAfterProcessing(ledger, dropped) == <<>>

\* run_backtest is about to be called on a loaded engine
InitBacktest ==
    /\ btIn \in [bars : BtBarChoices, initial_cash : BtCashChoices,
                 symbol : {BtSymbol}, timeframe : {BtTimeframe},
                 callbacks : BtCallbackChoices]
    /\ btPc = "start"
    /\ bar_idx = 0
    /\ current_cash = 0
    /\ positions = NoPositions
    /\ all_orders = <<>>
    /\ btMarketData = <<>>
    /\ current_bar = NoBar
    /\ portfolio = [available_cash |-> 0, positions |-> NoPositions]
    /\ order_ops = <<>>
    /\ opIdx = 0
    /\ queuedAt = NoPositions
    /\ rejected = {}
    /\ DispIdle
    /\ CtxIdle
    /\ EngIdle
    /\ CompatIdle

\* lines 53-93: the account state, the request, temp_context (whose current bar
\* is the last bar of the request) and lifecycle.initialize(temp_context); an
\* init hook that raises ends run_backtest with its exception
BtSetup(raises) ==
    /\ btPc = "start"
    /\ current_cash' = btIn.initial_cash
    /\ positions' = NoPositions
    /\ all_orders' = <<>>
    /\ btMarketData' = <<[symbol |-> btIn.symbol, timeframe |-> btIn.timeframe,
                          bars |-> btIn.bars]>>
    /\ current_bar' = IF btIn.bars # <<>> THEN Bar(btIn.bars[Len(btIn.bars)]) ELSE NoBar
    /\ portfolio' = update_context_account(btIn.initial_cash, NoPositions)
    /\ order_operations' = <<>>
    /\ btPc' = IF raises = <<>> THEN "loop" ELSE "raised"
    /\ UNCHANGED <<btIn, bar_idx, order_ops, opIdx, queuedAt, rejected,
                   incomplete_orders, uuidNext, returned, lastCall, prevGet,
                   dispVars, engVars, compatVars>>

\* lines 98-118: the next bar becomes the current bar, the market data of the
\* request (and so of temp_context) is cut to the bars up to it, the account and
\* portfolio of temp_context are refreshed and temp_context becomes the active
\* Context; lines 187-195 once the bars are exhausted
BtNextBar ==
    /\ btPc = "loop"
    /\ IF bar_idx < Len(btIn.bars)
       THEN /\ current_bar' = Bar(btIn.bars[bar_idx + 1])
            /\ btMarketData' = [btMarketData EXCEPT
                                   ![1].bars = historical_bars(btIn.bars, bar_idx)]
            /\ portfolio' = update_context_account(current_cash, positions)
            /\ contextLocal' = set_context(contextLocal, BtThread, BtContext)
            /\ btPc' = "before_market_open"
       ELSE /\ contextLocal' = clear_context(contextLocal, BtThread)
            /\ btPc' = "done"
            /\ UNCHANGED <<current_bar, btMarketData, portfolio>>
    /\ UNCHANGED <<btIn, bar_idx, current_cash, positions, all_orders, order_ops, opIdx,
                   queuedAt, rejected, ctxVars, dispVars, engOther, compatVars>>

\* a callback of the current bar calls temp_context.order_buy / order_sell
BtQueueOrder(choice) ==
    /\ btPc \in btIn.callbacks
    /\ uuidNext <= MaxBtOrders
    /\ LET r == IF choice.direction_type = BUY_DIRECTION_TYPE
                THEN order_buy(BtExecId, uuidNext, order_operations, btIn.symbol,
                               choice.quantity, choice.price)
                ELSE order_sell(BtExecId, uuidNext, order_operations, btIn.symbol,
                                choice.quantity, choice.price)
       IN /\ order_operations' = r.ops
          /\ queuedAt' = PositionsSet(queuedAt, r.ret.unique_id, bar_idx)
    /\ uuidNext' = uuidNext + 1
    /\ UNCHANGED <<btIn, btPc, bar_idx, current_cash, positions, all_orders, btMarketData,
                   current_bar, portfolio, order_ops, opIdx, rejected,
                   incomplete_orders, returned, lastCall, prevGet, dispVars, engVars,
                   compatVars>>

\* lines 120-126: before_market_open, if the module has one, returns or raises;
\* its exception is dropped
BtBeforeMarketOpenEnd(raises) ==
    /\ btPc = "before_market_open"
    /\ btPc' = "market_open"
    /\ UNCHANGED <<btIn, bar_idx, current_cash, positions, all_orders, btMarketData,
                   current_bar, portfolio, order_ops, opIdx, queuedAt, rejected,
                   ctxVars, dispVars, engVars, compatVars>>

\* lines 128-135 and 184-185: market_open returns and the ledger is read; when it
\* raises, or the module has none, the rest of the bar is skipped
BtMarketOpenEnd(raises) ==
    /\ btPc = "market_open"
    /\ IF "market_open" \in btIn.callbacks /\ raises = <<>>
       THEN /\ order_ops' = get_order_operations(order_operations).ret.items
            /\ opIdx' = 1
            /\ btPc' = "process"
            /\ UNCHANGED bar_idx
       ELSE /\ bar_idx' = bar_idx + 1
            /\ btPc' = "loop"
            /\ UNCHANGED <<order_ops, opIdx>>
    /\ UNCHANGED <<btIn, current_cash, positions, all_orders, btMarketData, current_bar,
                   portfolio, queuedAt, rejected, ctxVars, dispVars, engVars,
                   compatVars>>

\* lines 138-179: the next operation of order_ops
BtProcess ==
    /\ btPc = "process"
    /\ opIdx <= Len(order_ops)
    /\ LET r == SimulateFill(order_ops[opIdx], current_cash, positions, current_bar,
                             bar_idx, btIn.bars[bar_idx + 1], btIn.symbol)
       IN /\ current_cash' = r.cash
          /\ positions' = r.positions
          /\ all_orders' = all_orders \o r.fills
          /\ rejected' = rejected \cup r.rejected
    /\ opIdx' = opIdx + 1
    /\ UNCHANGED <<btIn, btPc, bar_idx, btMarketData, current_bar, portfolio, order_ops,
                   queuedAt, ctxVars, dispVars, engVars, compatVars>>

\* line 182: the ledger is emptied and the bar ends
BtClear ==
    /\ btPc = "process"
    /\ opIdx > Len(order_ops)
    /\ order_operations' = LedgerAfterProcessing(order_operations, rejected)
    /\ order_ops' = <<>>
    /\ opIdx' = 0
    /\ bar_idx' = bar_idx + 1
    /\ btPc' = "loop"
    /\ UNCHANGED <<btIn, current_cash, positions, all_orders, btMarketData, current_bar,
                   portfolio, queuedAt, rejected, incomplete_orders, uuidNext, returned,
                   lastCall, prevGet, dispVars, engVars, compatVars>>

NextBacktest ==
    \/ \E raises \in Raises : BtSetup(raises)
    \/ BtNextBar
    \/ \E choice \in BtOrderChoices : BtQueueOrder(choice)
    \/ \E raises \in Raises : BtBeforeMarketOpenEnd(raises)
    \/ \E raises \in Raises : BtMarketOpenEnd(raises)
    \/ BtProcess
    \/ BtClear

SpecBacktest == InitBacktest /\ [][NextBacktest]_vars

\* ------------------------------------------------------------------------
\* Market types, market time and the trading calendar (engine/compat/
\* market_type.py, market_time.py, trade_calendar.py).  A datetime is a
\* calendar date, a number of days after it and the seconds since midnight;
\* a date carries its strftime('%Y-%m-%d'), its weekday() and whether New York
\* is on daylight-saving time that day.
\* ------------------------------------------------------------------------
A_STOCK == "A_STOCK"
US_STOCK == "US_STOCK"
HK_STOCK == "HK_STOCK"
CRYPTO == "CRYPTO"
UNKNOWN == "UNKNOWN"
MarketType == {A_STOCK, US_STOCK, HK_STOCK, CRYPTO, UNKNOWN}

MARKET_TIMEZONES ==
    [A_STOCK |-> "Asia/Shanghai", US_STOCK |-> "America/New_York",
     HK_STOCK |-> "Asia/Hong_Kong", CRYPTO |-> "UTC"]

MARKET_TRADING_HOURS ==
    [A_STOCK |-> [open |-> <<9, 30>>, close |-> <<15, 0>>,
                  before_open |-> <<9, 25>>, after_close |-> <<15, 5>>],
     US_STOCK |-> [open |-> <<9, 30>>, close |-> <<16, 0>>,
                   before_open |-> <<9, 25>>, after_close |-> <<16, 5>>],
     HK_STOCK |-> [open |-> <<9, 30>>, close |-> <<16, 0>>,
                   before_open |-> <<9, 25>>, after_close |-> <<16, 5>>],
     CRYPTO |-> [open |-> <<0, 0>>, close |-> <<23, 59>>,
                 before_open |-> <<0, 0>>, after_close |-> <<23, 59>>]]

\* the dates the inputs are drawn from
Date(str_, weekday, dst) == [str |-> str_, weekday |-> weekday, dst |-> dst]
Dates ==
    { Date("2024-01-02", 1, FALSE),   \* a Tuesday, no holiday anywhere
      Date("2024-10-01", 1, TRUE),    \* a Tuesday, holiday of A_STOCK and HK_STOCK
      Date("2024-07-04", 3, TRUE),    \* a Thursday, holiday of US_STOCK
      Date("2024-06-15", 5, TRUE),    \* a Saturday
      Date("2024-06-16", 6, TRUE) }   \* a Sunday

Datetime(date, days, seconds) == [date |-> date, days |-> days, seconds |-> seconds]

\* the offset from UTC, in hours, of a pytz time zone on a date
UtcOffsetHours(tz_name, date) ==
    CASE tz_name = "Asia/Shanghai" -> 8
      [] tz_name = "Asia/Hong_Kong" -> 8
      [] tz_name = "America/New_York" -> IF date.dst THEN -4 ELSE -5
      [] tz_name = "UTC" -> 0

\* get_market_timezone: None (<<>>) without pytz
get_market_timezone(market_type, PYTZ_AVAILABLE) ==
    IF ~PYTZ_AVAILABLE THEN <<>>
    ELSE IF market_type \in DOMAIN MARKET_TIMEZONES
    THEN <<MARKET_TIMEZONES[market_type]>> ELSE <<"UTC">>

\* utc_time.astimezone(tz)
AsTimezone(utc_time, tz_name) ==
    LET total == utc_time.seconds + 3600 * UtcOffsetHours(tz_name, utc_time.date)
    IN IF total < 0 THEN Datetime(utc_time.date, utc_time.days - 1, total + 86400)
       ELSE IF total >= 86400
       THEN Datetime(utc_time.date, utc_time.days + 1, total - 86400)
       ELSE Datetime(utc_time.date, utc_time.days, total)

get_market_local_time(utc_time, market_type, PYTZ_AVAILABLE) ==
    LET tz == get_market_timezone(market_type, PYTZ_AVAILABLE)
    IN IF tz = <<>> THEN utc_time ELSE AsTimezone(utc_time, tz[1])

\* get_market_time_point: <<>> is None
get_market_time_point(current_utc_time, market_type, time_point, PYTZ_AVAILABLE) ==
    LET market_hours == IF market_type \in DOMAIN MARKET_TRADING_HOURS
                        THEN MARKET_TRADING_HOURS[market_type]
                        ELSE [p \in {} |-> <<0, 0>>]
    IN IF time_point \notin DOMAIN market_hours THEN <<>>
       ELSE LET local_time == get_market_local_time(current_utc_time, market_type,
                                                    PYTZ_AVAILABLE)
                hour == market_hours[time_point][1]
                minute == market_hours[time_point][2]
            IN <<[local_time EXCEPT !.seconds = 3600 * hour + 60 * minute]>>

\* (a - b).total_seconds()
TotalSeconds(a, b) == 86400 * (a.days - b.days) + a.seconds - b.seconds

Abs(x) == IF x < 0 THEN -x ELSE x

\* is_time_match: abs(total_seconds / 60) <= tolerance_minutes, on whole seconds
is_time_match(current_utc_time, market_type, time_point, tolerance_minutes, PYTZ_AVAILABLE) ==
    LET target_time == get_market_time_point(current_utc_time, market_type, time_point,
                                             PYTZ_AVAILABLE)
    IN IF target_time = <<>> THEN FALSE
       ELSE LET current_local == get_market_local_time(current_utc_time, market_type,
                                                       PYTZ_AVAILABLE)
            IN Abs(TotalSeconds(current_local, target_time[1])) <= 60 * tolerance_minutes

\* DEFAULT_CALENDAR (trade_calendar.py:15-88)
DEFAULT_CALENDAR ==
    [A_STOCK |->
        [holidays |-> {"2024-01-01", "2024-02-10", "2024-02-11", "2024-02-12",
                       "2024-02-13", "2024-02-14", "2024-02-15", "2024-02-16",
                       "2024-02-17", "2024-04-04", "2024-04-05", "2024-04-06",
                       "2024-05-01", "2024-05-02", "2024-05-03", "2024-05-04",
                       "2024-05-05", "2024-06-10", "2024-09-15", "2024-09-16",
                       "2024-09-17", "2024-10-01", "2024-10-02", "2024-10-03",
                       "2024-10-04", "2024-10-05", "2024-10-06", "2024-10-07"},
         weekends |-> {5, 6}],
     US_STOCK |->
        [holidays |-> {"2024-01-01", "2024-01-15", "2024-02-19", "2024-03-29",
                       "2024-05-27", "2024-06-19", "2024-07-04", "2024-09-02",
                       "2024-11-28", "2024-12-25"},
         weekends |-> {5, 6}],
     HK_STOCK |->
        [holidays |-> {"2024-01-01", "2024-02-10", "2024-02-11", "2024-02-12",
                       "2024-02-13", "2024-03-29", "2024-04-01", "2024-04-04",
                       "2024-05-01", "2024-05-15", "2024-06-10", "2024-07-01",
                       "2024-09-18", "2024-10-01", "2024-10-11", "2024-12-25",
                       "2024-12-26"},
         weekends |-> {5, 6}]]

\* TradeCalendar.is_trade_day on the default calendar, and a variant that looks
\* at the weekday only
IsTradeDayWeekdayOnly(date, market_type) ==
    market_type = CRYPTO \/ date.date.weekday \notin {5, 6}

is_trade_day(date, market_type) ==
    IF market_type = CRYPTO THEN TRUE
    ELSE LET known == market_type \in DOMAIN DEFAULT_CALENDAR
             weekends == IF known THEN DEFAULT_CALENDAR[market_type].weekends ELSE {5, 6}
             holidays == IF known THEN DEFAULT_CALENDAR[market_type].holidays ELSE {}
         IN IF date.date.weekday \in weekends THEN FALSE
            ELSE IF date.date.str \in holidays THEN FALSE
            ELSE TRUE

\* ------------------------------------------------------------------------
\* SpecTime: is_time_match and is_trade_day applied to one input
\* ------------------------------------------------------------------------
\* seconds since midnight UTC: around 00:00 and 23:59 (CRYPTO), 01:30 (09:30 in
\* Shanghai and Hong Kong), 09:30, 13:30 and 14:30 (09:30 in New York)
SecondsOfDay ==
    {0, 1800, 1801, 1860, 3600, 5400, 7200, 7230, 7260, 34200, 48600, 50400, 52200,
     84540, 86340}
Instants == { Datetime(d, 0, sec) : d \in Dates, sec \in SecondsOfDay }
TimePoints == {"open", "close", "before_open", "after_close", "noon"}
Tolerances == {-1, 0, 30}

InitTime ==
    /\ tIn \in [current_utc_time : Instants, market_type : MarketType,
                time_point : TimePoints, tolerance_minutes : Tolerances,
                PYTZ_AVAILABLE : BOOLEAN]
    /\ tOut = NoTimeResult
    /\ SchedIdle
    /\ PfIdle
    /\ OvIdle
    /\ LateIdle
    /\ DispIdle
    /\ CtxIdle
    /\ EngIdle
    /\ BtIdle

IsTimeMatchCall ==
    /\ tOut = NoTimeResult
    /\ tOut' = [kind |-> "is_time_match",
                result |-> is_time_match(tIn.current_utc_time, tIn.market_type,
                                         tIn.time_point, tIn.tolerance_minutes,
                                         tIn.PYTZ_AVAILABLE)]
    /\ UNCHANGED <<tIn, schedVars, pfVars, ovVars, lateVars, dispVars, ctxVars, engVars, btVars>>

IsTradeDayCall ==
    /\ tOut = NoTimeResult
    /\ tOut' = [kind |-> "is_trade_day",
                result |-> is_trade_day(tIn.current_utc_time, tIn.market_type)]
    /\ UNCHANGED <<tIn, schedVars, pfVars, ovVars, lateVars, dispVars, ctxVars, engVars, btVars>>

NextTime == IsTimeMatchCall \/ IsTradeDayCall
SpecTime == InitTime /\ [][NextTime]_vars

\* ------------------------------------------------------------------------
\* SpecSched: one call of LifecycleManager.before_trading (lifecycle.py:50-129)
\* with detect_market_type (market_type.py:63-120)
\* ------------------------------------------------------------------------
MaxEntries == 2

\* '.' in symbol, and symbol.split('.')[-1]
HasDot(symbol) == symbol \in {"000001.XSHE", "AAPL.US", "00700.HK", "BTC.USDT"}
Suffix(symbol) ==
    CASE symbol = "000001.XSHE" -> "XSHE"
      [] symbol = "AAPL.US" -> "US"
      [] symbol = "00700.HK" -> "HK"
      [] symbol = "BTC.USDT" -> "USDT"
      [] OTHER -> symbol

\* str(x).upper()
Upper(x) == IF x = "a_stock" THEN "A_STOCK" ELSE x

is_stock_market(symbol) ==
    IF symbol = "" \/ symbol = None THEN FALSE
    ELSE HasDot(symbol) /\ Suffix(symbol) \in {"XSHE", "XSHG", "US", "HK"}

\* the Context as detect_market_type and _call_scheduled_functions read it:
\* market_type is the attribute the strategy stored (None: it stored none),
\* params_market_type is params.get('market_type', ''), current_bar is NoBar for
\* a Context without bars, data_symbol the symbol of its first market data
\* block, current_dt is <<>> for None
SchedContext(id, market_type, params_market_type, bar, data_symbol, dt) ==
    [id |-> id, market_type |-> market_type, params_market_type |-> params_market_type,
     current_bar |-> bar, data_symbol |-> data_symbol, current_dt |-> dt]

detect_market_type(symbol, context) ==
    IF context.market_type # None /\ Upper(context.market_type) \in MarketType
    THEN Upper(context.market_type)
    ELSE IF Upper(context.params_market_type) # ""
            /\ Upper(context.params_market_type) \in MarketType
    THEN Upper(context.params_market_type)
    ELSE IF symbol = "" \/ symbol = None THEN UNKNOWN
    ELSE IF HasDot(symbol) /\ Suffix(symbol) \in {"XSHE", "XSHG"} THEN A_STOCK
    ELSE IF HasDot(symbol) /\ Suffix(symbol) = "US" THEN US_STOCK
    ELSE IF HasDot(symbol) /\ Suffix(symbol) = "HK" THEN HK_STOCK
    ELSE IF HasDot(symbol) /\ Suffix(symbol) = "USDT" THEN CRYPTO
    ELSE IF ~is_stock_market(symbol) THEN CRYPTO
    ELSE UNKNOWN

\* lifecycle.py:103-113: the market type of a scheduled entry
ResolveMarketType(entry, context) ==
    IF entry.reference_security # None /\ entry.reference_security # ""
    THEN detect_market_type(entry.reference_security, context)
    ELSE IF context.current_bar # NoBar /\ context.data_symbol # ""
    THEN detect_market_type(context.data_symbol, context)
    ELSE CRYPTO

\* lifecycle.py:115-123: whether the entry's function is called at current_time,
\* and a variant that skips the trading calendar
EntryDueAnyDay(market_type, current_time, time_point, PYTZ_AVAILABLE) ==
    is_time_match(current_time, market_type, time_point, 30, PYTZ_AVAILABLE)

\* a variant that calls a function only in the minute of its time point
EntryDueExactTime(market_type, current_time, time_point, PYTZ_AVAILABLE) ==
    /\ market_type = CRYPTO \/ is_trade_day(current_time, market_type)
    /\ is_time_match(current_time, market_type, time_point, 0, PYTZ_AVAILABLE)

EntryDue(market_type, current_time, time_point, PYTZ_AVAILABLE) ==
    /\ market_type = CRYPTO \/ is_trade_day(current_time, market_type)
    /\ is_time_match(current_time, market_type, time_point, 30, PYTZ_AVAILABLE)

\* lifecycle.py:124-129: where the call goes on after a scheduled function that
\* returned or raised, and a variant that lets the exception through
AfterScheduledPropagates(raises, last) ==
    IF raises # <<>> THEN [pc |-> "done", out |-> "raised"]
    ELSE [pc |-> IF last THEN "before_trading" ELSE "loop", out |-> "none"]

AfterScheduled(raises, last) ==
    [pc |-> IF last THEN "before_trading" ELSE "loop", out |-> "none"]

\* what run_daily registered for the strategy module
SchedEntry(func, time, reference_security) ==
    [func |-> func, time |-> time, reference_security |-> reference_security]
SchedEntryChoices ==
    { SchedEntry("f1", "open", "000001.XSHE"),
      SchedEntry("f2", "open", "BTCUSDT"),
      SchedEntry("f3", "before_open", None),
      SchedEntry("f4", "open", "AAPL.US"),
      SchedEntry(None, "open", "BTCUSDT") }
SchedEntryLists ==
    UNION { [1..n -> SchedEntryChoices] : n \in 0..MaxEntries }

\* 00:00, 01:30 and 14:30 UTC on a plain Tuesday and on a holiday of A_STOCK and
\* HK_STOCK, 01:30 UTC on a Saturday
SchedInstants ==
    { Datetime(d, 0, sec) : d \in { Date("2024-01-02", 1, FALSE),
                                    Date("2024-10-01", 1, TRUE) },
                            sec \in {0, 5400, 52200} }
        \cup { Datetime(Date("2024-06-15", 5, TRUE), 0, 5400) }
\* the wall clock of a call whose Context has a current time
Noon == Datetime(Date("2024-01-02", 1, FALSE), 0, 43200)

\* a Context without bars (current_dt is None, datetime.utcnow() is read) or
\* with bars of 00700.HK
SchedClockChoices ==
    { [bar |-> NoBar, data_symbol |-> "", current_dt |-> <<>>, utcnow |-> i] :
        i \in SchedInstants }
    \cup { [bar |-> Bar(Bar1), data_symbol |-> "00700.HK", current_dt |-> <<i>>,
            utcnow |-> Noon] : i \in SchedInstants }
SchedModuleChoices ==
    { [strategy_module |-> 1, before_trading |-> TRUE],
      [strategy_module |-> 1, before_trading |-> FALSE],
      [strategy_module |-> 0, before_trading |-> TRUE] }

InitSched ==
    /\ \E entries \in SchedEntryLists, clock \in SchedClockChoices,
          market_type \in {None, "a_stock", "BOGUS"},
          params_market_type \in {"", US_STOCK},
          module \in SchedModuleChoices, PYTZ_AVAILABLE \in BOOLEAN :
          schedIn = [entries |-> entries,
                     context |-> SchedContext(1, market_type, params_market_type,
                                              clock.bar, clock.data_symbol,
                                              clock.current_dt),
                     utcnow |-> clock.utcnow,
                     strategy_module |-> module.strategy_module,
                     before_trading |-> module.before_trading,
                     PYTZ_AVAILABLE |-> PYTZ_AVAILABLE]
    /\ schedPc = "start"
    /\ schedIdx = 0
    /\ invoked = <<>>
    /\ resolved = <<>>
    /\ schedOut = "none"
    /\ invokedBefore = <<>>
    /\ CalIdle
    /\ PfIdle
    /\ OvIdle
    /\ LateIdle
    /\ DispIdle
    /\ CtxIdle
    /\ EngIdle
    /\ BtIdle

\* lifecycle.py:90-93: current_time
CurrentTime(context, utcnow) ==
    IF context.current_dt # <<>> THEN context.current_dt[1] ELSE utcnow

\* lifecycle.py:76-87: before_trading enters _call_scheduled_functions, which
\* returns at once without a strategy module or without registered entries
SchedBegin ==
    /\ schedPc = "start"
    /\ IF schedIn.strategy_module = 0 \/ schedIn.entries = <<>>
       THEN schedPc' = "before_trading" /\ schedIdx' = 0
       ELSE schedPc' = "loop" /\ schedIdx' = 1
    /\ UNCHANGED <<schedIn, invoked, resolved, schedOut, invokedBefore, calVars, pfVars, ovVars, lateVars, dispVars,
                   ctxVars, engVars, btVars>>

\* lifecycle.py:96-129: one entry of scheduled_funcs; its function, if called,
\* returns or raises
SchedLoop(raises) ==
    /\ schedPc = "loop"
    /\ LET scheduled_entry == schedIn.entries[schedIdx]
           last == schedIdx = Len(schedIn.entries)
           market_type == ResolveMarketType(scheduled_entry, schedIn.context)
           current_time == CurrentTime(schedIn.context, schedIn.utcnow)
       IN IF scheduled_entry.func = None
          THEN /\ schedPc' = AfterScheduled(<<>>, last).pc
               /\ UNCHANGED <<invoked, resolved, schedOut>>
          ELSE /\ resolved' = Append(resolved, [entry |-> schedIdx,
                                                market_type |-> market_type])
               /\ IF EntryDue(market_type, current_time, scheduled_entry.time,
                              schedIn.PYTZ_AVAILABLE)
                  THEN /\ invoked' = Append(invoked,
                              [entry |-> schedIdx, func |-> scheduled_entry.func,
                               context |-> schedIn.context.id, raised |-> raises # <<>>])
                       /\ schedPc' = AfterScheduled(raises, last).pc
                       /\ schedOut' = AfterScheduled(raises, last).out
                  ELSE /\ raises = <<>>
                       /\ schedPc' = AfterScheduled(<<>>, last).pc
                       /\ UNCHANGED <<invoked, schedOut>>
    /\ schedIdx' = schedIdx + 1
    /\ UNCHANGED <<schedIn, invokedBefore, calVars, pfVars, ovVars, lateVars, dispVars,
                   ctxVars, engVars, btVars>>

\* lifecycle.py:64-67: the strategy's before_trading, if it has one; its
\* exception reaches the caller
SchedBeforeTrading(raises) ==
    /\ schedPc = "before_trading"
    /\ IF schedIn.before_trading
       THEN /\ invoked' = Append(invoked,
                   [entry |-> 0, func |-> "before_trading",
                    context |-> schedIn.context.id, raised |-> raises # <<>>])
            /\ schedOut' = IF raises = <<>> THEN "returned" ELSE "raised"
       ELSE /\ raises = <<>>
            /\ schedOut' = "returned"
            /\ UNCHANGED invoked
    /\ schedPc' = "done"
    /\ UNCHANGED <<schedIn, schedIdx, resolved, invokedBefore, calVars, pfVars, ovVars, lateVars, dispVars, ctxVars,
                   engVars, btVars>>

\* the host calls before_trading a second time on the same day, the clock
\* inside the same window: nothing of the first call is kept by the
\* LifecycleManager
SchedAgain ==
    /\ schedPc = "done"
    /\ invokedBefore = <<>>
    /\ invokedBefore' = <<[k \in 1..Len(invoked) |-> invoked[k].entry]>>
    /\ invoked' = <<>>
    /\ resolved' = <<>>
    /\ schedIdx' = 0
    /\ schedPc' = "start"
    /\ schedOut' = "none"
    /\ UNCHANGED <<schedIn, calVars, pfVars, ovVars, lateVars, dispVars, ctxVars,
                   engVars, btVars>>

NextSched ==
    \/ SchedAgain
    \/ SchedBegin
    \/ \E raises \in Raises : SchedLoop(raises)
    \/ \E raises \in Raises : SchedBeforeTrading(raises)

SpecSched == InitSched /\ [][NextSched]_vars

\* Context.current_dt (context.py:292-308) for a close time within the first
\* day of the epoch, on a host whose local time is UTC: <<>> is None
EpochDate == Date("1970-01-01", 3, FALSE)
current_dt(bar) ==
    IF bar = NoBar THEN <<>>
    ELSE IF bar.close_time = 0 THEN <<>>
    ELSE <<Datetime(EpochDate, 0, bar.close_time \div 1000)>>

\* the Context _build_context makes of a request (context.py:171-226), as the
\* scheduler reads it: no market_type attribute, no market_type parameter
RequestContext(id, req) ==
    LET blocks == req.market_data_context
        bar == IF blocks # <<>> /\ blocks[1].bars # <<>>
               THEN Bar(blocks[1].bars[Len(blocks[1].bars)]) ELSE NoBar
    IN SchedContext(id, None, "", bar,
                    IF blocks # <<>> THEN blocks[1].symbol ELSE "", current_dt(bar))

\* ------------------------------------------------------------------------
\* SpecPortfolio: the Account of one Context is changed and its Portfolio is
\* read (context.py:46-150, 171-291)
\* ------------------------------------------------------------------------
MaxAccountChanges == 2

\* an Account: available_margin is <<>> for None, else a dictionary of a
\* currency type and an amount; balances hold a numeric 'free'
Account(available_margin, balances, account_positions) ==
    [available_margin |-> available_margin, balances |-> balances,
     positions |-> account_positions]
MarginChoices ==
    { <<>>, <<[currency_type |-> 0, amount |-> 0]>>, <<[currency_type |-> 0, amount |-> 5]>> }
BalancesChoices == { <<>>, <<[free |-> 3]>> }
AccountPosition(symbol, quantity) == [symbol |-> symbol, quantity |-> quantity]
AccountPositionsChoices ==
    { <<>>, <<AccountPosition("BTCUSDT", "1.0")>>, <<AccountPosition("", "2.0")>> }

RECURSIVE SumFree(_)
SumFree(balances) ==
    IF balances = <<>> THEN 0 ELSE balances[1].free + SumFree(Tail(balances))

\* Portfolio.set_positions: the dictionary of the positions with a symbol
RECURSIVE PositionsDict(_)
PositionsDict(positions_list) ==
    IF positions_list = <<>> THEN NoPositions
    ELSE LET pos == positions_list[Len(positions_list)]
             before == PositionsDict(SubSeq(positions_list, 1, Len(positions_list) - 1))
         IN IF pos.symbol = "" THEN before
            ELSE [sym \in DOMAIN before \cup {pos.symbol} |->
                     IF sym = pos.symbol THEN pos ELSE before[sym]]

\* Context._initialize_portfolio (context.py:228-272)
initialize_portfolio(acc) ==
    LET margin == IF acc.available_margin = <<>> THEN 0
                  ELSE acc.available_margin[1].currency_type
                           + acc.available_margin[1].amount
    IN [available_cash |-> IF margin = 0 THEN SumFree(acc.balances) ELSE margin,
        positions |-> PositionsDict(acc.positions)]

\* Context.__init__: the Portfolio is computed from the Account once
InitPortfolio ==
    /\ account \in { Account(m, b, p) : m \in MarginChoices, b \in BalancesChoices,
                                        p \in AccountPositionsChoices }
    /\ ctxPortfolio = initialize_portfolio(account)
    /\ queried = NotQueried
    /\ nAccount = 0
    /\ CalIdle
    /\ SchedIdle
    /\ OvIdle
    /\ LateIdle
    /\ DispIdle
    /\ CtxIdle
    /\ EngIdle
    /\ BtIdle

\* context.account.available_margin = ..., .balances = ..., .positions = ...
SetAccount(acc) ==
    /\ nAccount < MaxAccountChanges
    /\ acc # account
    /\ account' = acc
    /\ nAccount' = nAccount + 1
    /\ UNCHANGED <<ctxPortfolio, queried, calVars, schedVars, ovVars, lateVars, dispVars, ctxVars,
                   engVars, btVars>>

\* context._initialize_portfolio(), as BacktestEngine._update_context_account
\* calls it (backtest_engine.py:285)
RefreshPortfolio ==
    /\ ctxPortfolio' = initialize_portfolio(account)
    /\ UNCHANGED <<account, queried, nAccount, calVars, schedVars, ovVars, lateVars, dispVars, ctxVars,
                   engVars, btVars>>

\* context.portfolio.available_cash and context.portfolio.positions are read
QueryPortfolio ==
    /\ queried' = [kind |-> "Queried", available_cash |-> ctxPortfolio.available_cash,
                   positions |-> ctxPortfolio.positions, account |-> account]
    /\ UNCHANGED <<account, ctxPortfolio, nAccount, calVars, schedVars, ovVars, lateVars, dispVars,
                   ctxVars, engVars, btVars>>

NextPortfolio ==
    \/ \E m \in MarginChoices : SetAccount([account EXCEPT !.available_margin = m])
    \/ \E b \in BalancesChoices : SetAccount([account EXCEPT !.balances = b])
    \/ \E p \in AccountPositionsChoices : SetAccount([account EXCEPT !.positions = p])
    \/ RefreshPortfolio
    \/ QueryPortfolio

SpecPortfolio == InitPortfolio /\ [][NextPortfolio]_vars

\* ------------------------------------------------------------------------
\* SpecOrderValue: order_value called on the Context of the thread
\* (wealthdata.py:109-145, engine/compat/order.py:17-53)
\* ------------------------------------------------------------------------
MaxValueOrders == 2      \* orders queued through order_value on one Context

\* value / price for price # 0, as a fraction with a positive denominator
Quotient(value, price) ==
    IF price > 0 THEN [num |-> value, den |-> price]
    ELSE [num |-> 0 - value, den |-> 0 - price]

\* int(quantity): truncation toward zero
int(quantity) ==
    [num |-> IF quantity.num >= 0 THEN quantity.num \div quantity.den
             ELSE 0 - ((0 - quantity.num) \div quantity.den),
     den |-> 1]

\* a variant that leaves the quantity of a stock order as it was computed
AdjustQuantityNever(quantity, market_type) == quantity

\* wealthdata.py:131-135: whole shares on the stock markets
AdjustQuantity(quantity, market_type) ==
    IF market_type \in {A_STOCK, US_STOCK, HK_STOCK} THEN int(quantity) ELSE quantity

\* what an order_value call leaves: the exception it raised or None, the
\* quantity it computed (<<>> when it got to none), the Order, the ledger
OrderValueResult(exc, quantity, ret, ops) ==
    [exc |-> exc, quantity |-> quantity, ret |-> ret, ops |-> ops]

\* order_value(symbol, value, price) with get_context() = context, which is
\* NoAccount for None; uuid is the value uuid4 yields, ops the ledger
order_value(context, uuid, ops, symbol, value, price) ==
    IF context = NoAccount THEN OrderValueResult("RuntimeError", <<>>, None, ops)
    ELSE IF price = <<>> /\ context.current_bar = NoBar
    THEN OrderValueResult("ValueError", <<>>, None, ops)
    ELSE LET p == IF price = <<>> THEN float(context.current_bar.close) ELSE price[1]
         IN IF p = 0 THEN OrderValueResult("ZeroDivisionError", <<>>, None, ops)
            ELSE LET quantity == AdjustQuantity(Quotient(value, p),
                                                detect_market_type(symbol, context))
                 IN IF quantity.num <= 0
                    THEN OrderValueResult("ValueError", <<quantity>>, None, ops)
                    ELSE LET r == order_buy(context.exec_id, uuid, ops, symbol,
                                            quantity, <<p>>)
                         IN OrderValueResult(None, <<quantity>>, r.ret, r.ops)

OrderValueSymbols == {"BTCUSDT", "AAPL.US"}
OrderValueValues == {-3, 0, 1, 5}
OrderValuePrices == {<<>>, <<-2>>, <<0>>, <<2>>}
OrderValueBars == {NoBar, Bar(BarData(1000, 1999, "2.0")), Bar(BarData(1000, 1999, "0.0"))}

\* the Context order_value reads: its exec_id, its market configuration and
\* its current bar
OrderValueContext(market_type, bar) ==
    [exec_id |-> CtxExecId, market_type |-> market_type, params_market_type |-> "",
     current_bar |-> bar]

InitOrderValue ==
    /\ ovIn \in {NoAccount}
                \cup { OrderValueContext(market_type, bar) :
                         market_type \in {None, "a_stock"}, bar \in OrderValueBars }
    /\ ovOut = NoOrderValueCall
    /\ CalIdle
    /\ SchedIdle
    /\ PfIdle
    /\ LateIdle
    /\ DispIdle
    /\ CtxIdle
    /\ EngIdle
    /\ BtIdle

\* the strategy calls order_value(symbol, value, price)
OrderValue(symbol, value, price) ==
    /\ Len(order_operations) < MaxValueOrders
    /\ LET r == order_value(ovIn, uuidNext, order_operations, symbol, value, price)
       IN /\ order_operations' = r.ops
          /\ uuidNext' = IF r.exc = None THEN uuidNext + 1 ELSE uuidNext
          /\ ovOut' = [op |-> "order_value", symbol |-> symbol, value |-> value,
                       price |-> price, exc |-> r.exc, quantity |-> r.quantity,
                       ret |-> r.ret, before |-> order_operations]
    /\ UNCHANGED <<ovIn, incomplete_orders, returned, lastCall, prevGet, calVars,
                   schedVars, pfVars, lateVars, dispVars, engVars, btVars>>

NextOrderValue ==
    \E symbol \in OrderValueSymbols, value \in OrderValueValues,
       price \in OrderValuePrices : OrderValue(symbol, value, price)

SpecOrderValue == InitOrderValue /\ [][NextOrderValue]_vars

\* ------------------------------------------------------------------------
\* SpecHistory: Context.history applied to the market data of one Context
\* (context.py:333-370)
\* ------------------------------------------------------------------------
MaxHistoryBars == 3      \* bars in one market data block

\* one market data block of the request
MarketDataBlock(symbol, timeframe, bars) ==
    [symbol |-> symbol, timeframe |-> timeframe, bars |-> bars]

\* n bars, the oldest first, each with its own close
HistoryBars(n) == [i \in 1..n |-> BtBar(i, IF i = 1 THEN "1.0" ELSE IF i = 2 THEN "2.0" ELSE "3.0")]

HistoryBlocks ==
    { MarketDataBlock("BTCUSDT", "1h", HistoryBars(n)) : n \in 0..MaxHistoryBars }
    \cup { MarketDataBlock("BTCUSDT", "1d", HistoryBars(1)),
           MarketDataBlock("ETHUSDT", "1h", HistoryBars(2)) }

InitHistory ==
    /\ hIn \in {<<>>} \cup { <<b>> : b \in HistoryBlocks }
                      \cup { <<b1, b2>> : b1 \in HistoryBlocks, b2 \in HistoryBlocks }
    /\ hOut = NoOrderValueCall
    /\ CacheIdle
    /\ WsIdle
    /\ CalIdle
    /\ SchedIdle
    /\ PfIdle
    /\ OvIdle
    /\ DispIdle
    /\ CtxIdle
    /\ EngIdle
    /\ BtIdle

\* the strategy calls context.history(symbol, count, timeframe)
History(symbol, count, timeframe) ==
    /\ hOut' = [op |-> "history", symbol |-> symbol, count |-> count,
                timeframe |-> timeframe,
                bars |-> history(hIn, symbol, count, timeframe)]
    /\ UNCHANGED <<hIn, cacheVars, wsVars, calVars, schedVars, pfVars, ovVars, dispVars,
                   ctxVars, engVars, btVars>>

NextHistory ==
    \E symbol \in {"BTCUSDT", "ETHUSDT"}, count \in -1..(MaxHistoryBars + 1),
       timeframe \in {"1h", "1d"} : History(symbol, count, timeframe)

SpecHistory == InitHistory /\ [][NextHistory]_vars

\* ------------------------------------------------------------------------
\* SpecCache: add_bar calls on one WebSocketCache
\* (engine/python_sdk/websocket_cache.py:14-60)
\* ------------------------------------------------------------------------
MaxAdds == 4             \* add_bar calls on one WebSocketCache

\* a variant of the buffer that never evicts
DequeAppendUnbounded(d, maxlen, x) == Append(d, x)

\* deque(maxlen=maxlen).append(x): the oldest element leaves a full deque
DequeAppend(d, maxlen, x) ==
    IF maxlen = 0 THEN d
    ELSE IF Len(d) < maxlen THEN Append(d, x)
    ELSE Append(Tail(d), x)

\* the (symbol, timeframe) keys and the bars of the add_bar calls
CacheKeys == { <<"BTCUSDT", "1h">>, <<"BTCUSDT", "1m">>, <<"ETHUSDT", "1h">> }
CacheBars == { BtBar(1, "1.0"), BtBar(2, "2.0") }

\* WebSocketCache.add_bar under the cache's lock (websocket_cache.py:43-60)
add_bar(c, key, bar) ==
    LET old == IF key \in DOMAIN c.cache THEN c.cache[key] ELSE <<>>
    IN [c EXCEPT
          !.cache = [k \in DOMAIN c.cache \cup {key} |->
                        IF k = key THEN DequeAppend(old, c.max_bars, bar)
                        ELSE c.cache[k]],
          !.last_update = [k \in DOMAIN c.last_update \cup {key} |->
                              IF k = key THEN Get(bar, "close_time", 0)
                              ELSE c.last_update[k]]]

\* WebSocketCache(max_bars_per_symbol)
InitCache ==
    /\ \E max_bars_per_symbol \in 0..2 :
          wcache = [max_bars |-> max_bars_per_symbol, cache |-> <<>>,
                    last_update |-> <<>>]
    /\ added = <<>>
    /\ HistIdle
    /\ WsIdle
    /\ CalIdle
    /\ SchedIdle
    /\ PfIdle
    /\ OvIdle
    /\ DispIdle
    /\ CtxIdle
    /\ EngIdle
    /\ BtIdle

AddBar(key, bar) ==
    /\ Len(added) < MaxAdds
    /\ wcache' = add_bar(wcache, key, bar)
    /\ added' = Append(added, [key |-> key, bar |-> bar])
    /\ UNCHANGED <<histVars, wsVars, calVars, schedVars, pfVars, ovVars, dispVars,
                   ctxVars, engVars, btVars>>

NextCache == \E key \in CacheKeys, bar \in CacheBars : AddBar(key, bar)

SpecCache == InitCache /\ [][NextCache]_vars

\* ------------------------------------------------------------------------
\* SpecWs: one WebSocketClient, the application thread that calls connect and
\* disconnect, the socket threads that deliver the callbacks and the reconnect
\* threads (engine/python_sdk/websocket_client.py:23-290)
\* ------------------------------------------------------------------------
MaxSockets == 3          \* WebSocketApp objects created by one client
MaxUserCalls == 2        \* connect / disconnect calls of the application
MaxAttemptsChoice == 2   \* the largest max_reconnect_attempts explored

\* ConnectionState
DISCONNECTED == "disconnected"
CONNECTING == "connecting"
CONNECTED == "connected"
RECONNECTING == "reconnecting"
ERROR == "error"

\* everything but the client
notWsVars == <<histVars, cacheVars, calVars, schedVars, pfVars, ovVars, dispVars,
               ctxVars, engVars, btVars>>

\* a WebSocketApp and its run_forever thread: status is "connecting" until a
\* callback is delivered, "open" after _on_open, "errored" after _on_error,
\* "closing" inside _on_close, "closed" after it; close_requested after close()
Socket(status, close_requested) ==
    [status |-> status, close_requested |-> close_requested]

\* a variant of _attempt_reconnect without the cap
AttemptReconnectUncapped(attempts, max) ==
    [ws_state |-> RECONNECTING, should_reconnect |-> TRUE, attempts |-> attempts + 1,
     start |-> TRUE]

\* _attempt_reconnect (websocket_client.py:219-244) with should_reconnect set:
\* the state, the flag and the counter it leaves, and whether it starts a
\* reconnect thread
attempt_reconnect(attempts, max) ==
    IF attempts >= max
    THEN [ws_state |-> ERROR, should_reconnect |-> FALSE, attempts |-> attempts,
          start |-> FALSE]
    ELSE [ws_state |-> RECONNECTING, should_reconnect |-> TRUE, attempts |-> attempts + 1,
          start |-> TRUE]

\* WebSocketClient(max_reconnect_attempts=...)
InitWs ==
    /\ max_reconnect_attempts \in 0..MaxAttemptsChoice
    /\ ws_state = DISCONNECTED
    /\ should_reconnect = FALSE
    /\ reconnect_attempts = 0
    /\ sockets = <<>>
    /\ reconnectThreads = [sleep |-> 0, connect |-> 0]
    /\ userPc = "idle"
    /\ disconnected = FALSE
    /\ attemptsSinceOpen = 0
    /\ nUser = 0
    /\ HistIdle
    /\ CacheIdle
    /\ CalIdle
    /\ SchedIdle
    /\ PfIdle
    /\ OvIdle
    /\ DispIdle
    /\ CtxIdle
    /\ EngIdle
    /\ BtIdle

\* connect() (websocket_client.py:246-277): nothing when already connecting or
\* connected, else CONNECTING, reconnection enabled, a new WebSocketApp and its
\* thread
Connect ==
    IF ws_state \in {CONNECTING, CONNECTED}
    THEN UNCHANGED <<ws_state, should_reconnect, sockets>>
    ELSE /\ ws_state' = CONNECTING
         /\ should_reconnect' = TRUE
         /\ sockets' = Append(sockets, Socket("connecting", FALSE))

\* the application calls connect()
UserConnect ==
    /\ userPc = "idle"
    /\ nUser < MaxUserCalls
    /\ Len(sockets) < MaxSockets
    /\ Connect
    /\ disconnected' = FALSE
    /\ nUser' = nUser + 1
    /\ UNCHANGED <<max_reconnect_attempts, reconnect_attempts, reconnectThreads, userPc,
                   attemptsSinceOpen, notWsVars>>

\* disconnect(), websocket_client.py:281-282: _should_reconnect = False
UserDisconnectBegin ==
    /\ userPc = "idle"
    /\ nUser < MaxUserCalls
    /\ should_reconnect' = FALSE
    /\ userPc' = "disconnect"
    /\ nUser' = nUser + 1
    /\ UNCHANGED <<max_reconnect_attempts, ws_state, reconnect_attempts, sockets,
                   reconnectThreads, disconnected, attemptsSinceOpen, notWsVars>>

\* disconnect(), websocket_client.py:284-290: self._ws.close(), DISCONNECTED,
\* return
UserDisconnectEnd ==
    /\ userPc = "disconnect"
    /\ sockets' = IF sockets = <<>> THEN sockets
                  ELSE [sockets EXCEPT ![Len(sockets)].close_requested = TRUE]
    /\ ws_state' = DISCONNECTED
    /\ userPc' = "idle"
    /\ disconnected' = TRUE
    /\ UNCHANGED <<max_reconnect_attempts, should_reconnect, reconnect_attempts,
                   reconnectThreads, attemptsSinceOpen, nUser, notWsVars>>

\* _on_open (websocket_client.py:112-119), delivered by the thread of socket s
SockOpen(s) ==
    /\ sockets[s].status = "connecting"
    /\ ~sockets[s].close_requested
    /\ sockets' = [sockets EXCEPT ![s].status = "open"]
    /\ ws_state' = CONNECTED
    /\ reconnect_attempts' = 0
    /\ attemptsSinceOpen' = 0
    /\ UNCHANGED <<max_reconnect_attempts, should_reconnect, reconnectThreads, userPc,
                   disconnected, nUser, notWsVars>>

\* _on_error (websocket_client.py:147-156)
SockError(s) ==
    /\ sockets[s].status \in {"connecting", "open"}
    /\ sockets' = [sockets EXCEPT ![s].status = "errored"]
    /\ ws_state' = ERROR
    /\ UNCHANGED <<max_reconnect_attempts, should_reconnect, reconnect_attempts,
                   reconnectThreads, userPc, disconnected, attemptsSinceOpen, nUser,
                   notWsVars>>

\* _on_close, websocket_client.py:160-161: set_state(DISCONNECTED)
SockCloseBegin(s) ==
    /\ sockets[s].status \in {"connecting", "open", "errored"}
    /\ sockets' = [sockets EXCEPT ![s].status = "closing"]
    /\ ws_state' = DISCONNECTED
    /\ UNCHANGED <<max_reconnect_attempts, should_reconnect, reconnect_attempts,
                   reconnectThreads, userPc, disconnected, attemptsSinceOpen, nUser,
                   notWsVars>>

\* _on_close, websocket_client.py:163-165: if self._should_reconnect:
\* self._attempt_reconnect()
SockCloseEnd(s) ==
    /\ sockets[s].status = "closing"
    /\ sockets' = [sockets EXCEPT ![s].status = "closed"]
    /\ IF should_reconnect
       THEN LET r == attempt_reconnect(reconnect_attempts, max_reconnect_attempts)
            IN /\ ws_state' = r.ws_state
               /\ should_reconnect' = r.should_reconnect
               /\ reconnect_attempts' = r.attempts
               /\ reconnectThreads' =
                     IF r.start THEN [reconnectThreads EXCEPT !.sleep = @ + 1]
                     ELSE reconnectThreads
               /\ attemptsSinceOpen' = IF r.start THEN attemptsSinceOpen + 1
                                       ELSE attemptsSinceOpen
       ELSE UNCHANGED <<ws_state, should_reconnect, reconnect_attempts,
                        reconnectThreads, attemptsSinceOpen>>
    /\ UNCHANGED <<max_reconnect_attempts, userPc, disconnected, nUser, notWsVars>>

\* reconnect(), websocket_client.py:235-236: after the sleep,
\* if self._should_reconnect
ReconnectCheck ==
    /\ reconnectThreads.sleep > 0
    /\ reconnectThreads' =
          [sleep |-> reconnectThreads.sleep - 1,
           connect |-> reconnectThreads.connect + IF should_reconnect THEN 1 ELSE 0]
    /\ UNCHANGED <<max_reconnect_attempts, ws_state, should_reconnect,
                   reconnect_attempts, sockets, userPc, disconnected,
                   attemptsSinceOpen, nUser, notWsVars>>

\* reconnect(), websocket_client.py:237-238: self.connect()
ReconnectConnect ==
    /\ reconnectThreads.connect > 0
    /\ Len(sockets) < MaxSockets
    /\ reconnectThreads' = [reconnectThreads EXCEPT !.connect = @ - 1]
    /\ Connect
    /\ UNCHANGED <<max_reconnect_attempts, reconnect_attempts, userPc, disconnected,
                   attemptsSinceOpen, nUser, notWsVars>>

NextWs ==
    \/ UserConnect
    \/ UserDisconnectBegin
    \/ UserDisconnectEnd
    \/ \E s \in 1..Len(sockets) : SockOpen(s)
    \/ \E s \in 1..Len(sockets) : SockError(s)
    \/ \E s \in 1..Len(sockets) : SockCloseBegin(s)
    \/ \E s \in 1..Len(sockets) : SockCloseEnd(s)
    \/ ReconnectCheck
    \/ ReconnectConnect

SpecWs == InitWs /\ [][NextWs]_vars

\* ========================================================================
\* Properties
\* ========================================================================

\* C1: on one engine, for every exec_id and every sequence of execute calls,
\* calls in which the init hook or the dispatched callback raises included, the
\* strategy's init hook is invoked at most once for that exec_id.
C1_InitHookAtMostOnce ==
    \A e \in Engines, x \in ExecIds : hookCount[e][x] <= 1

\* C2: with two strategy instances in one process, for every order of their
\* load and execute steps, an entry registered by run_daily from one strategy's
\* init hook is never returned by get_scheduled_functions for the other.
C2_ScheduledCallbacksIsolated ==
    \A e \in Engines :
        loader[e] # 0 =>
            LET entries == get_scheduled_functions(scheduled, loader[e])
            IN \A i \in 1..Len(entries) : entries[i].func.strategy = e

\* C3: after execute returns, on every exit path, the active-Context slot of
\* the executing thread is empty.
C3_ContextSlotEmptyAfterReturn ==
    \A t \in Threads : pc[t] = "idle" => contextLocal[t] = NoContext

\* execute has returned from a call whose callback raised with the slot set
C3_Witness ==
    /\ pc["t1"] = "idle"
    /\ lastReturn["t1"].path = "callback_raise"
    /\ response["t1"].status = STATUS_FAILED
    /\ contextLocal["t1"] = NoContext

\* C4: a call in which the init hook or the dispatched callback raises returns
\* status Failed with a non-empty error_message and an empty order_op_event; no
\* operation queued before the exception is returned in any response.
C4_RaisedCallReturnsNoOperations ==
    /\ \A t \in Threads :
          lastReturn[t].path \in {"init_raise", "callback_raise"} =>
              /\ response[t].status = STATUS_FAILED
              /\ response[t].error_message # ""
              /\ response[t].order_op_event = <<>>
    /\ \A t \in Threads : UniqueIds(response[t].order_op_event) \cap discarded = {}

\* a callback raised after it had queued an order
C4_Witness ==
    /\ lastReturn["t1"].path = "callback_raise"
    /\ discarded # {}
    /\ response["t1"].status = STATUS_FAILED

\* C5: two execute calls with the same exec_id that run at the same time on one
\* engine, both returning Success, invoke the init hook exactly once in total.
C5_ConcurrentInitOnce ==
    \A e \in Engines, x \in ExecIds :
        ( \A t \in Threads :
             lastReturn[t] = [kind |-> "execute", engine |-> e, exec_id |-> x,
                              path |-> "success"] )
        => hookCount[e][x] = 1

\* C6: for one Context, every order_buy, order_sell, cancel_order and
\* get_order_operations call leaves the ledger as it was or with exactly one
\* operation appended at its end: nothing queued is removed, reordered or
\* rewritten.
C6_LedgerAppendOnly ==
    [][ \/ order_operations' = order_operations
        \/ /\ Len(order_operations') = Len(order_operations) + 1
           /\ SubSeq(order_operations', 1, Len(order_operations)) = order_operations
      ]_vars

\* a Create and a Cancel operation are still in the ledger after it was read
C6_Witness ==
    /\ lastCall.op = "get_order_operations"
    /\ Len(order_operations) >= 2
    /\ \E i \in 1..Len(order_operations) :
          order_operations[i].order_op_type = WITHDRAW_ORDER_OP_TYPE
    /\ \E i \in 1..Len(order_operations) :
          order_operations[i].order_op_type = CREATE_ORDER_OP_TYPE

\* C7: cancel_order(id) returns True and appends exactly one Cancel operation
\* iff id is the order_id or the unique_id of an order of the incomplete-orders
\* list; for every other id, the id of an order created earlier on this Context
\* included, it returns False and leaves the ledger unchanged.
C7_CancelOnlyIncomplete ==
    lastCall.op = "cancel_order" =>
        LET id == lastCall.order_id
            match == \E i \in 1..Len(incomplete_orders) :
                        \/ incomplete_orders[i].order_id = id
                        \/ incomplete_orders[i].unique_id = id
        IN /\ lastCall.ret_bool = match
           /\ match => order_operations =
                          Append(lastCall.before,
                                 [order_op_type |-> WITHDRAW_ORDER_OP_TYPE,
                                  order |-> [order_id |-> id]])
           /\ ~match => order_operations = lastCall.before

\* cancel_order was called with the id of an order created on this Context
C7_Witness ==
    /\ lastCall.op = "cancel_order"
    /\ lastCall.order_id \in CreatedIds
    /\ ~lastCall.ret_bool
    /\ incomplete_orders # <<>>

\* C8: order_buy / order_sell appends exactly one Create operation and returns
\* an Order with direction Buy / Sell, type Limit iff a price was given and
\* Market otherwise, status New; the appended payload carries the Order's
\* unique id, symbol, direction, type and quantity, with time-in-force GTC.
C8_CreateOrder ==
    lastCall.op \in {"order_buy", "order_sell"} =>
        LET o == lastCall.ret_order
            n == Len(order_operations)
        IN /\ n = Len(lastCall.before) + 1
           /\ SubSeq(order_operations, 1, n - 1) = lastCall.before
           /\ order_operations[n].order_op_type = CREATE_ORDER_OP_TYPE
           /\ o.direction_type = IF lastCall.op = "order_buy"
                                 THEN BUY_DIRECTION_TYPE ELSE SELL_DIRECTION_TYPE
           /\ o.order_type = IF lastCall.price = <<>>
                             THEN MARKET_ORDER_TYPE ELSE LIMIT_ORDER_TYPE
           /\ o.status = NEW_ORDER_STATUS_TYPE
           /\ LET payload == order_operations[n].order
              IN /\ payload.unique_id = o.unique_id
                 /\ payload.symbol = o.symbol
                 /\ payload.direction_type = o.direction_type
                 /\ payload.order_type = o.order_type
                 /\ payload.qty = o.qty
                 /\ payload.time_in_force = GTC_TIME_IN_FORCE_TYPE

\* a sell order with the price 0 was created as a Limit order
C8_Witness ==
    /\ lastCall.op = "order_sell"
    /\ lastCall.price = <<0>>
    /\ lastCall.ret_order.order_type = LIMIT_ORDER_TYPE
    /\ Len(order_operations) >= 2

\* C9: get_order_operations returns a snapshot of the ledger and does not clear
\* it: the call leaves the ledger unchanged, two consecutive calls with no order
\* call in between return equal lists, and elements the caller adds to or
\* removes from a returned list change neither the ledger nor a later result.
C9_SnapshotNotCleared ==
    lastCall.op = "get_order_operations" =>
        /\ lastCall.ret_items = lastCall.before
        /\ order_operations = lastCall.before
        /\ prevGet.valid => lastCall.ret_items = prevGet.items

\* two consecutive reads of a non-empty ledger, the caller having changed the
\* first returned list in between
C9_Witness ==
    /\ lastCall.op = "get_order_operations"
    /\ prevGet.valid
    /\ prevGet.mutated
    /\ order_operations # <<>>
    /\ returned.items = order_operations

\* C10: for every trigger_type that is not MarketData, OrderStatus or RiskEvent
\* (Invalid = 0 and every integer outside the enumeration), dispatch returns
\* (None, None, None).
C10_UnknownTriggerReturnsNone ==
    ( /\ dOut # NotCalled
      /\ dIn.trigger_type \notin {MARKET_DATA_TRIGGER_TYPE, ORDER_STATUS_TRIGGER_TYPE,
                                  RISK_MANAGE_TRIGGER_TYPE} )
    => dOut = [exc |-> None, name |-> None, func |-> None, args |-> NoArgs]

\* C11: for a known trigger kind whose callback slot the strategy does not
\* implement, dispatch returns (slotName, None, None) whatever the payload;
\* execute then invokes no callback, the dispatch step leaves the Context's
\* ledger as it was, and the response is Success with exactly that ledger.
C11_UnimplementedSlotSkipped ==
    [][\A t \in Threads :
         LET known == {MARKET_DATA_TRIGGER_TYPE, ORDER_STATUS_TRIGGER_TYPE,
                       RISK_MANAGE_TRIGGER_TYPE}
             functions == strategyFile[call[t].engine].functions
             unimplemented ==
                 /\ call[t].kind = "execute"
                 /\ call[t].req.trigger_type \in known
                 /\ TRIGGER_TO_FUNCTION(call[t].req.trigger_type) \notin functions
             skipped ==
                 [exc |-> None, name |-> TRIGGER_TO_FUNCTION(call[t].req.trigger_type),
                  func |-> None, args |-> NoArgs]
         IN /\ (pc[t] = "dispatch" /\ unimplemented /\ pc'[t] # "dispatch") =>
                  /\ pc'[t] = "collect"
                  /\ call'[t].dres = skipped
                  /\ call'[t].ctx.ops = call[t].ctx.ops
                  /\ \A detail \in TriggerDetailChoices, md \in MarketDataChoices,
                        inc \in IncompleteChoices :
                         dispatch(functions, call[t].req.trigger_type, detail,
                                  call[t].ctx.id, md, inc) = skipped
            /\ (pc[t] = "collect" /\ unimplemented /\ pc'[t] # "collect") =>
                  /\ pc'[t] = "idle"
                  /\ response'[t].status = STATUS_SUCCESS
                  /\ response'[t].error_message = ""
                  /\ response'[t].order_op_event = call[t].ctx.ops]_vars

\* a RiskEvent trigger reached the end of the dispatch step of a strategy
\* without on_risk_event, the init hook having queued an order before
C11_Witness ==
    /\ pc["t1"] = "collect"
    /\ call["t1"].req.trigger_type = RISK_MANAGE_TRIGGER_TYPE
    /\ call["t1"].dres.name = "on_risk_event"
    /\ call["t1"].dres.func = None
    /\ call["t1"].ctx.ops # <<>>

\* C12: for a MarketData trigger with handle_bar implemented, dispatch returns
\* ("handle_bar", None, None) when the market-data list is empty or its first
\* block has no bars; otherwise the bar argument is built from the last bar of
\* the first block.
C12_HandleBarLatestBarOfFirstBlock ==
    ( /\ dOut # NotCalled
      /\ dIn.trigger_type = MARKET_DATA_TRIGGER_TYPE
      /\ "handle_bar" \in dIn.strategy_functions )
    => LET md == dIn.market_data_context
       IN IF md = <<>> \/ md[1].bars = <<>>
          THEN dOut = [exc |-> None, name |-> "handle_bar", func |-> None,
                       args |-> NoArgs]
          ELSE LET last == md[1].bars[Len(md[1].bars)]
               IN /\ dOut.exc = None
                  /\ dOut.name = "handle_bar"
                  /\ dOut.func = "handle_bar"
                  /\ dOut.args.context = dIn.context
                  /\ dOut.args.arg =
                        [kind |-> "Bar",
                         open_time |-> IF "open_time" \in last.keys
                                       THEN last.open_time ELSE 0,
                         close_time |-> IF "close_time" \in last.keys
                                        THEN last.close_time ELSE 0,
                         close |-> IF "close" \in last.keys THEN last.close ELSE "0"]

\* two blocks with different bars: the bar handed over is the first block's
C12_Witness ==
    /\ dIn.trigger_type = MARKET_DATA_TRIGGER_TYPE
    /\ dIn.market_data_context = <<Block(<<Bar1>>), Block(<<Bar2>>)>>
    /\ dOut.func = "handle_bar"
    /\ dOut.args.arg.close = "105.0"

C15_BuyFilledIffCashSuffices ==
    [][ /\ (btPc = "market_open" /\ btPc' = "process")
            => (order_ops' = order_operations /\ opIdx' = 1)
        /\ (/\ btPc = "process"
            /\ opIdx' = opIdx + 1
            /\ order_ops[opIdx].order_op_type = CREATE_ORDER_OP_TYPE
            /\ order_ops[opIdx].order.direction_type = BUY_DIRECTION_TYPE)
            => LET order == order_ops[opIdx].order
                   p == OrderPrice(order, current_bar)
                   q == order.qty
                   held == IF order.symbol \in DOMAIN positions
                           THEN positions[order.symbol] ELSE 0
               IN IF current_cash >= p * q
                  THEN /\ current_cash' = current_cash - p * q
                       /\ DOMAIN positions' = DOMAIN positions \cup {order.symbol}
                       /\ positions'[order.symbol] = held + q
                       /\ \A s \in DOMAIN positions \ {order.symbol} :
                              positions'[s] = positions[s]
                       /\ Len(all_orders') = Len(all_orders) + 1
                       /\ SubSeq(all_orders', 1, Len(all_orders)) = all_orders
                       /\ all_orders'[Len(all_orders')].order_op = order_ops[opIdx]
                       /\ all_orders'[Len(all_orders')].executed_price = p
                       /\ all_orders'[Len(all_orders')].executed_qty = q
                  ELSE /\ current_cash' = current_cash
                       /\ positions' = positions
                       /\ all_orders' = all_orders ]_vars

\* the second Buy of a bar was rejected for the cash the first one had used
C15_Witness ==
    /\ btPc = "process"
    /\ Len(order_ops) = 2
    /\ opIdx = 3
    /\ Len(all_orders) = 1
    /\ all_orders[1].order_op = order_ops[1]
    /\ order_ops[1].order.direction_type = BUY_DIRECTION_TYPE
    /\ order_ops[2].order.direction_type = BUY_DIRECTION_TYPE
    /\ order_ops[2] \in rejected
    /\ current_cash < btIn.initial_cash
    /\ OrderPrice(order_ops[2].order, current_bar) * order_ops[2].order.qty
           <= btIn.initial_cash

\* C16: a Sell Create operation is filled exactly when the position held in its
\* symbol (0 for a symbol not held) is at least the quantity. A fill raises the
\* cash by price * quantity, lowers the position by the quantity and appends one
\* fill record; a symbol whose position drops to zero is removed from the
\* positions. A rejected Sell changes nothing.
C16_SellFilledIffPositionSuffices ==
    [][ (/\ btPc = "process"
         /\ opIdx' = opIdx + 1
         /\ order_ops[opIdx].order_op_type = CREATE_ORDER_OP_TYPE
         /\ order_ops[opIdx].order.direction_type = SELL_DIRECTION_TYPE)
         => LET order == order_ops[opIdx].order
                p == OrderPrice(order, current_bar)
                q == order.qty
                held == IF order.symbol \in DOMAIN positions
                        THEN positions[order.symbol] ELSE 0
            IN IF held >= q
               THEN /\ current_cash' = current_cash + p * q
                    /\ IF held - q = 0
                       THEN DOMAIN positions' = DOMAIN positions \ {order.symbol}
                       ELSE /\ DOMAIN positions' = DOMAIN positions \cup {order.symbol}
                            /\ positions'[order.symbol] = held - q
                    /\ \A s \in DOMAIN positions \ {order.symbol} :
                           positions'[s] = positions[s]
                    /\ Len(all_orders') = Len(all_orders) + 1
                    /\ SubSeq(all_orders', 1, Len(all_orders)) = all_orders
                    /\ all_orders'[Len(all_orders')].order_op = order_ops[opIdx]
                    /\ all_orders'[Len(all_orders')].executed_price = p
                    /\ all_orders'[Len(all_orders')].executed_qty = q
               ELSE /\ current_cash' = current_cash
                    /\ positions' = positions
                    /\ all_orders' = all_orders ]_vars

\* a Sell of the whole position was filled and the symbol is no longer held
C16_Witness ==
    /\ Len(all_orders) = 2
    /\ all_orders[1].order_op.order.direction_type = BUY_DIRECTION_TYPE
    /\ all_orders[2].order_op.order.direction_type = SELL_DIRECTION_TYPE
    /\ all_orders[1].executed_qty = all_orders[2].executed_qty
    /\ all_orders[1].executed_qty > 0
    /\ positions = NoPositions

C18_FillTaggedWithQueuingBar ==
    /\ \A i \in 1..Len(all_orders) :
          LET bar_queued == queuedAt[all_orders[i].order_op.order.unique_id]
          IN /\ all_orders[i].bar_index = bar_queued
             /\ all_orders[i].bar_time = btIn.bars[bar_queued + 1].open_time
    /\ \A i, j \in 1..Len(all_orders) :
          /\ i # j => all_orders[i].order_op # all_orders[j].order_op
          /\ i < j => all_orders[i].bar_index <= all_orders[j].bar_index

\* C19: while the callbacks of bar i run, the current bar of the Context is
\* bars[i] and Context.history yields bars of bars[0..i] only: the whole window
\* when asked for all of it, its last count bars otherwise.
C19_HistoryWindowUpToCurrentBar ==
    btPc \in {"before_market_open", "market_open"} =>
        LET window == [i \in 1..(bar_idx + 1) |-> Bar(btIn.bars[i])]
        IN /\ current_bar = window[bar_idx + 1]
           /\ history(btMarketData, btIn.symbol, MaxBars + 1, btIn.timeframe) = window
           /\ \A count \in 1..(MaxBars + 1) :
                 LET bars_seen == history(btMarketData, btIn.symbol, count, btIn.timeframe)
                 IN /\ Len(bars_seen) = IF count < bar_idx + 1 THEN count ELSE bar_idx + 1
                    /\ \A k \in 1..Len(bars_seen) :
                          bars_seen[k] = window[bar_idx + 1 - Len(bars_seen) + k]
           /\ \A count \in -1..0 :
                 LET bars_seen == history(btMarketData, btIn.symbol, count, btIn.timeframe)
                 IN \A k \in 1..Len(bars_seen) :
                        \E j \in 1..(bar_idx + 1) : bars_seen[k] = window[j]

\* market_open of the first bar runs and a later bar exists
C19_Witness ==
    /\ btPc = "market_open"
    /\ "market_open" \in btIn.callbacks
    /\ bar_idx = 0
    /\ Len(btIn.bars) = MaxBars
    /\ Len(history(btMarketData, btIn.symbol, MaxBars, btIn.timeframe)) = 1

\* C20: in a run started with initial_cash >= 0 the cash and every position
\* stay >= 0, whatever quantities and prices the strategy hands to order_buy and
\* order_sell.
C20_CashAndPositionsNonNegative ==
    btIn.initial_cash >= 0 =>
        /\ current_cash >= 0
        /\ \A s \in DOMAIN positions : positions[s] >= 0

\* C21: the price of a fill is the limit price of its order when the order has
\* one, and otherwise the close of the bar at which the fill was made.
C21_FillPriceLimitElseClose ==
    \A i \in 1..Len(all_orders) :
        LET fill == all_orders[i]
            limit_price == fill.order_op.order.limit_price
        IN IF limit_price # None
           THEN str(fill.executed_price) = limit_price
           ELSE fill.executed_price = float(btIn.bars[fill.bar_index + 1].close)

\* a limit order was filled at a price that is not the close of its bar, and a
\* market order was filled too
C21_Witness ==
    /\ Len(all_orders) = 2
    /\ all_orders[1].order_op.order.limit_price # None
    /\ all_orders[1].executed_price
           # float(btIn.bars[all_orders[1].bar_index + 1].close)
    /\ all_orders[2].order_op.order.limit_price = None

\* C26: is_time_match is true exactly when the point is in the trading-hours
\* table of the market type and the market-local time of the instant is at most
\* the tolerance (in minutes, boundary included) away from the point on the same
\* local date; for a point that is not in the table it is false.
C26_TimeMatchWithinTolerance ==
    tOut.kind = "is_time_match" =>
        LET known == tIn.market_type \in DOMAIN MARKET_TRADING_HOURS
            tz_name == IF known THEN MARKET_TIMEZONES[tIn.market_type] ELSE "UTC"
            local_seconds ==
                (tIn.current_utc_time.seconds
                    + 3600 * UtcOffsetHours(tz_name, tIn.current_utc_time.date)) % 86400
            in_table == known /\ tIn.time_point \in DOMAIN MARKET_TRADING_HOURS[tIn.market_type]
            point == MARKET_TRADING_HOURS[tIn.market_type][tIn.time_point]
        IN tOut.result =
              (in_table /\ LET diff == local_seconds - (3600 * point[1] + 60 * point[2])
                           IN /\ diff <= 60 * tIn.tolerance_minutes
                              /\ -diff <= 60 * tIn.tolerance_minutes)

\* C27: is_trade_day is true for every date under CRYPTO; for another market
\* type it is false exactly when the weekday of the date is in the weekend set
\* of the type or the date is in its holiday set.
C27_TradeDayCalendar ==
    tOut.kind = "is_trade_day" =>
        LET day == tIn.current_utc_time.date
            known == tIn.market_type \in DOMAIN DEFAULT_CALENDAR
            weekend == IF known THEN day.weekday \in DEFAULT_CALENDAR[tIn.market_type].weekends
                       ELSE day.weekday \in {5, 6}
            holiday == known /\ day.str \in DEFAULT_CALENDAR[tIn.market_type].holidays
        IN IF tIn.market_type = CRYPTO THEN tOut.result = TRUE
           ELSE tOut.result = ~(weekend \/ holiday)

\* a weekday that is a holiday of the market type was found not to be a trade day
C27_Witness ==
    /\ tOut.kind = "is_trade_day"
    /\ tIn.market_type = US_STOCK
    /\ tIn.current_utc_time.date.str = "2024-07-04"
    /\ tOut.result = FALSE

\* C22: in one pass over the registered entries, each entry's function is called
\* with the Context exactly when (the market type resolved for that entry is
\* CRYPTO or the current time is a trade day of that type) and is_time_match
\* with a tolerance of 30 minutes holds for that entry's own market type; every
\* entry is judged on its own, also next to an entry with another reference
\* symbol or with the same point and symbol.
C22_EntryFiredIffDue ==
    \A i \in 1..Len(schedIn.entries) :
        (schedIn.strategy_module # 0 /\ (schedPc \in {"before_trading", "done"} \/ i < schedIdx))
        => LET scheduled_entry == schedIn.entries[i]
               market_type == ResolveMarketType(scheduled_entry, schedIn.context)
               now == CurrentTime(schedIn.context, schedIn.utcnow)
               due == /\ scheduled_entry.func # None
                      /\ market_type = CRYPTO \/ is_trade_day(now, market_type)
                      /\ is_time_match(now, market_type, scheduled_entry.time, 30,
                                       schedIn.PYTZ_AVAILABLE)
               calls == { k \in 1..Len(invoked) : invoked[k].entry = i }
           IN /\ Cardinality(calls) = IF due THEN 1 ELSE 0
              /\ \A k \in calls : /\ invoked[k].func = scheduled_entry.func
                                  /\ invoked[k].context = schedIn.context.id

\* two entries with the same point and symbol were both called, and an entry of
\* another market type in the same list would not have been
C22_Witness ==
    /\ schedPc = "done"
    /\ Len(schedIn.entries) = 2
    /\ schedIn.entries[1] = schedIn.entries[2]
    /\ schedIn.entries[1].reference_security = "000001.XSHE"
    /\ Len(invoked) >= 2
    /\ invoked[1].entry = 1
    /\ invoked[2].entry = 2
    /\ ~is_time_match(CurrentTime(schedIn.context, schedIn.utcnow), CRYPTO, "open", 30,
                      schedIn.PYTZ_AVAILABLE)

\* C23: an exception raised by a scheduled function is caught: the entries after
\* it are still evaluated and called when due, before_trading is still called,
\* and the exception does not reach the caller of before_trading.
C23_ScheduledExceptionCaught ==
    \A k \in 1..Len(invoked) :
        (invoked[k].entry # 0 /\ invoked[k].raised) =>
            /\ schedPc = "done" =>
                  /\ schedIdx = Len(schedIn.entries) + 1
                  /\ \A j \in (invoked[k].entry + 1)..Len(schedIn.entries) :
                        LET market_type == ResolveMarketType(schedIn.entries[j],
                                                             schedIn.context)
                        IN (/\ schedIn.entries[j].func # None
                            /\ EntryDue(market_type,
                                        CurrentTime(schedIn.context, schedIn.utcnow),
                                        schedIn.entries[j].time, schedIn.PYTZ_AVAILABLE))
                           => \E m \in 1..Len(invoked) : invoked[m].entry = j
                  /\ schedIn.before_trading
                        => \E m \in 1..Len(invoked) : invoked[m].entry = 0
            /\ schedOut = "raised"
                  => \E m \in 1..Len(invoked) : invoked[m].entry = 0 /\ invoked[m].raised

\* the first of two due functions raised, the second was called, before_trading
\* was called and the call returned
C23_Witness ==
    /\ schedPc = "done"
    /\ schedOut = "returned"
    /\ Len(invoked) = 3
    /\ invoked[1].entry = 1 /\ invoked[1].raised
    /\ invoked[2].entry = 2
    /\ invoked[3].func = "before_trading"

\* C24: the market type used for an entry, with or without a reference symbol,
\* is the explicit market-type configuration of the Context when it has a valid
\* one, otherwise the type detected from the format of the entry's reference
\* symbol, otherwise CRYPTO.
C24_MarketTypeResolution ==
    \A k \in 1..Len(resolved) :
        LET scheduled_entry == schedIn.entries[resolved[k].entry]
            context == schedIn.context
            reference_security == scheduled_entry.reference_security
        IN resolved[k].market_type =
              IF context.market_type # None /\ Upper(context.market_type) \in MarketType
              THEN Upper(context.market_type)
              ELSE IF Upper(context.params_market_type) \in MarketType
              THEN Upper(context.params_market_type)
              ELSE IF reference_security = None THEN CRYPTO
              ELSE IF reference_security \in {"000001.XSHE"} THEN A_STOCK
              ELSE IF reference_security = "AAPL.US" THEN US_STOCK
              ELSE IF reference_security = "00700.HK" THEN HK_STOCK
              ELSE CRYPTO

\* C25: in every execute call the scheduler has run before the dispatched
\* callback is invoked: every periodic entry registered for the strategy
\* instance that is due at the current time of the Context has been invoked
\* with that Context.
C25_SchedulerRunsBeforeDispatch ==
    \A t \in Threads :
        pc[t] = "callback" =>
            LET entries == get_scheduled_functions(scheduled, loader[call[t].engine])
                context == RequestContext(call[t].ctx.id, call[t].req)
            IN \A i \in 1..Len(entries) :
                  (/\ context.current_dt # <<>>
                   /\ EntryDue(ResolveMarketType(entries[i], context),
                               context.current_dt[1], entries[i].time, TRUE))
                  => \E k \in 1..Len(invoked) :
                        /\ invoked[k].func = entries[i].func
                        /\ invoked[k].context = call[t].ctx.id

\* C28: whenever context.portfolio is read, its available cash and its position
\* map are the values derived from the Account the Context holds at that
\* moment, also after the Account was changed and nothing was refreshed.
C28_PortfolioFollowsAccount ==
    queried # NotQueried =>
        /\ queried.available_cash = initialize_portfolio(queried.account).available_cash
        /\ queried.positions = initialize_portfolio(queried.account).positions

\* C29: on an engine whose strategy file lacks initialize, the load fails in
\* every execute call: the engine stays unloaded with no dispatcher and no
\* lifecycle manager, no call on it gets past the load (no Context, no hook, no
\* dispatch, no callback), and every execute call returns Failed with no
\* operation.
C29_MissingInitializeRejectsEveryRequest ==
    \A e \in Engines : ~strategyFile[e].has_initialize =>
        /\ ~loaded[e]
        /\ lifecycle[e] = 0
        /\ \A x \in ExecIds : hookCount[e][x] = 0
        /\ \A t \in Threads :
              /\ call[t].engine = e =>
                    /\ pc[t] \in {"execute", "load_strategy", "loader_load", "except"}
                    /\ call[t].ctx = NoCtx
                    /\ call[t].dres = NotCalled
              /\ (lastReturn[t].kind = "execute" /\ lastReturn[t].engine = e) =>
                    /\ lastReturn[t].path = "load_failure"
                    /\ response[t].status = STATUS_FAILED
                    /\ response[t].order_op_event = <<>>

\* two execute calls on the engine without initialize, both rejected by the load
C29_Witness ==
    /\ ~strategyFile["B"].has_initialize
    /\ Len(modules) >= 2
    /\ modules[1] = "B"
    /\ modules[2] = "B"
    /\ pc["t1"] = "idle"
    /\ lastReturn["t1"].kind = "execute"
    /\ lastReturn["t1"].engine = "B"
    /\ response["t1"].status = STATUS_FAILED

\* C30: an order_value call that computes a quantity (a Context is set, the
\* price, given or taken from the current bar's close, is not zero) fails with
\* ValueError and leaves the ledger alone when value / price, truncated toward
\* zero on a stock market, is zero or negative; otherwise it raises nothing and
\* appends exactly one Create operation of a Buy order for that symbol.
C30_OrderValueQuantity ==
    (ovOut.op = "order_value" /\ ovOut.quantity # <<>>) =>
        LET p == IF ovOut.price = <<>> THEN float(ovIn.current_bar.close)
                 ELSE ovOut.price[1]
            stock == detect_market_type(ovOut.symbol, ovIn) \in
                         {A_STOCK, US_STOCK, HK_STOCK}
            sameSign == (ovOut.value > 0 /\ p > 0) \/ (ovOut.value < 0 /\ p < 0)
            positive == sameSign /\ (stock => Abs(ovOut.value) >= Abs(p))
        IN IF positive
           THEN /\ ovOut.exc = None
                /\ Len(order_operations) = Len(ovOut.before) + 1
                /\ SubSeq(order_operations, 1, Len(ovOut.before)) = ovOut.before
                /\ order_operations[Len(order_operations)].order_op_type
                       = CREATE_ORDER_OP_TYPE
                /\ order_operations[Len(order_operations)].order.direction_type
                       = BUY_DIRECTION_TYPE
                /\ order_operations[Len(order_operations)].order.symbol = ovOut.symbol
           ELSE /\ ovOut.exc = "ValueError"
                /\ order_operations = ovOut.before

\* a stock order whose value buys less than one share is refused after an
\* order was queued on the same Context
C30_Witness ==
    /\ ovOut.op = "order_value"
    /\ ovOut.symbol = "AAPL.US"
    /\ ovOut.value = 1
    /\ ovOut.price = <<>>
    /\ ovOut.quantity = <<[num |-> 0, den |-> 1]>>
    /\ ovOut.exc = "ValueError"
    /\ Len(order_operations) = 1

\* C31: a history call with count >= 0 returns an empty list when no block of
\* the market data matches (symbol, timeframe), and otherwise the last
\* min(count, number of bars) bars of the first matching block, oldest first:
\* never more than count bars.
C31_HistoryAtMostCount ==
    (hOut.op = "history" /\ hOut.count >= 0) =>
        LET matching == { i \in 1..Len(hIn) : /\ hIn[i].symbol = hOut.symbol
                                              /\ hIn[i].timeframe = hOut.timeframe }
        IN IF matching = {} THEN hOut.bars = <<>>
           ELSE LET first == CHOOSE i \in matching : \A j \in matching : i <= j
                    bars_data == hIn[first].bars
                    n == IF hOut.count < Len(bars_data) THEN hOut.count ELSE Len(bars_data)
                IN /\ Len(hOut.bars) = n
                   /\ Len(hOut.bars) <= hOut.count
                   /\ \A k \in 1..Len(hOut.bars) :
                         hOut.bars[k] = Bar(bars_data[Len(bars_data) - n + k])

\* C32: when an execute call returns Failed, what outlives the request (for
\* every engine, the functions registered under its strategy module and the
\* exec ids its lifecycle manager holds as initialized) equals its value at
\* the begin of the call.
C32_FailedCallLeavesNoResidue ==
    [][\A t \in Threads :
          (/\ pc[t] = "except"
           /\ pc'[t] = "idle"
           /\ response'[t].status = STATUS_FAILED)
          => EngineState(scheduled', initialized', loader', lifecycle') = call[t].pre]_vars

\* C33: before_trading called again on the same LifecycleManager with the same
\* clock reading calls the function of every entry that is due (trade day or
\* CRYPTO, time point within 30 minutes) once in each call: as many times as
\* before_trading was called, nothing is remembered from one call to the next.
C33_NoDeduplication ==
    (schedIn.strategy_module # 0 /\ schedPc \in {"before_trading", "done"}) =>
        \A i \in 1..Len(schedIn.entries) :
            LET scheduled_entry == schedIn.entries[i]
                market_type == ResolveMarketType(scheduled_entry, schedIn.context)
                now == CurrentTime(schedIn.context, schedIn.utcnow)
                due == /\ scheduled_entry.func # None
                       /\ market_type = CRYPTO \/ is_trade_day(now, market_type)
                       /\ is_time_match(now, market_type, scheduled_entry.time, 30,
                                        schedIn.PYTZ_AVAILABLE)
            IN due =>
                  /\ Cardinality({ k \in 1..Len(invoked) : invoked[k].entry = i }) = 1
                  /\ \A c \in 1..Len(invokedBefore) :
                        Cardinality({ k \in 1..Len(invokedBefore[c]) :
                                        invokedBefore[c][k] = i }) = 1

\* a second call inside the window has called the due function again; the
\* current time is five minutes past the entry's time point
C33_Witness ==
    /\ schedPc = "done"
    /\ Len(invokedBefore) = 1
    /\ Len(schedIn.entries) = 1
    /\ schedIn.entries[1].func = "f3"
    /\ schedIn.PYTZ_AVAILABLE
    /\ ~is_time_match(CurrentTime(schedIn.context, schedIn.utcnow),
                      ResolveMarketType(schedIn.entries[1], schedIn.context),
                      "before_open", 0, TRUE)
    /\ invokedBefore[1] = <<1>>
    /\ \E k \in 1..Len(invoked) : invoked[k].entry = 1

\* C34: after every add_bar call each key's buffer holds the last
\* min(max_bars_per_symbol, number of bars added under that key) bars added
\* under that key, in the order they were added, and the call leaves the buffer
\* of every other key as it was.
C34_CacheBoundedPerKey ==
    [][/\ \A key \in DOMAIN wcache'.cache :
             LET mine == SelectSeq(added', LAMBDA a : a.key = key)
                 n == IF Len(mine) < wcache'.max_bars THEN Len(mine)
                      ELSE wcache'.max_bars
                 buffer == wcache'.cache[key]
             IN /\ Len(buffer) <= wcache'.max_bars
                /\ Len(buffer) = n
                /\ \A i \in 1..n : buffer[i] = mine[Len(mine) - n + i].bar
       /\ \A key \in DOMAIN wcache.cache :
             key # added'[Len(added')].key => wcache'.cache[key] = wcache.cache[key]]_vars

\* a full buffer has evicted its oldest bar while another key holds a bar
C34_Witness ==
    /\ wcache # NoAccount
    /\ wcache.max_bars = 2
    /\ Len(added) = 4
    /\ added[1].key = <<"BTCUSDT", "1h">>
    /\ added[2].key = <<"ETHUSDT", "1h">>
    /\ added[3].key = <<"BTCUSDT", "1h">>
    /\ added[4].key = <<"BTCUSDT", "1h">>
    /\ added[1].bar # added[3].bar
    /\ wcache.cache[<<"BTCUSDT", "1h">>] = <<added[3].bar, added[4].bar>>
    /\ wcache.cache[<<"ETHUSDT", "1h">>] = <<added[2].bar>>

C40_DisconnectIsFinal ==
    [][(disconnected /\ disconnected')
         => /\ ~should_reconnect'
            /\ ws_state' = DISCONNECTED
            /\ Len(sockets') = Len(sockets)]_vars


\* C36: at every bar of run_backtest, while the callbacks of the bar run, the
\* available cash of context.portfolio equals the simulator's current cash and
\* context.portfolio.positions holds exactly the simulator's positions, each
\* with its current quantity.
C36_PortfolioMirrorsSimulator ==
    btPc \in {"before_market_open", "market_open"} =>
        /\ portfolio.available_cash = current_cash
        /\ DOMAIN portfolio.positions = DOMAIN positions
        /\ \A sym \in DOMAIN positions :
               portfolio.positions[sym].quantity = str(positions[sym])


\* executed_price * executed_qty summed over the fills of one direction
RECURSIVE FillsValue(_, _)
FillsValue(fills, direction_type) ==
    IF fills = <<>> THEN 0
    ELSE (IF fills[1].order_op.order.direction_type = direction_type
          THEN fills[1].executed_price * fills[1].executed_qty ELSE 0)
         + FillsValue(Tail(fills), direction_type)

\* C38: in run_backtest cash and positions change only together with a
\* recorded fill: a step that records no fill (a rejected order, a callback, the
\* change of bar) leaves both as they are, processing a Cancel operation in
\* the current state would change neither and record nothing, and the cash is
\* always initial_cash - sum(price * qty of buy fills) + sum(price * qty of
\* sell fills), in particular at the end.
C38_CashAndPositionsChangeOnlyByFills ==
    [][btPc # "start" =>
         /\ all_orders' = all_orders =>
                current_cash' = current_cash /\ positions' = positions
         /\ btPc = "process" =>
                LET r == SimulateFill(CancelOperation("order123"), current_cash,
                                      positions, current_bar, bar_idx,
                                      btIn.bars[bar_idx + 1], btIn.symbol)
                IN r.cash = current_cash /\ r.positions = positions /\ r.fills = <<>>
         /\ current_cash' = btIn.initial_cash
                             - FillsValue(all_orders', BUY_DIRECTION_TYPE)
                             + FillsValue(all_orders', SELL_DIRECTION_TYPE)]_vars

\* a run ended with a buy fill and a sell fill and a final cash that differs
\* from the initial cash
C38_Witness ==
    /\ btPc = "done"
    /\ Len(all_orders) = 2
    /\ all_orders[1].order_op.order.direction_type = BUY_DIRECTION_TYPE
    /\ all_orders[2].order_op.order.direction_type = SELL_DIRECTION_TYPE
    /\ current_cash # btIn.initial_cash


\* C37: in every Engine.execute call, once lifecycle.initialize has run, the
\* attribute that the strategy's initialize sets on the Context is readable on
\* the Context the dispatched callback receives, for the first request of an
\* exec_id and for every later one.
C37_HookAttributesReadable ==
    \A t \in Threads :
        pc[t] = "callback" => hasattr(call[t].ctx.strategy_data, HookAttribute)


\* C39: on every thread on which execute runs the init hook of a loaded
\* engine, wherever the strategy was loaded, the hook's run_daily appends its
\* callback to the functions registered under the module of the engine's own
\* loader, and the hook does not raise, so that the call goes on to Success.
C39_RunDailyOnAnyThread ==
    [][\A t \in Threads :
          (pc[t] = "init_hook" /\ pc'[t] # "init_hook") =>
              LET e == call[t].engine
                  m == loader[e]
              IN /\ pc'[t] = "init_mark"
                 /\ scheduled'[m] = Append(scheduled[m], ScheduledEntry(e))]_vars

====
